---------------------------- MODULE Spec2Model ----------------------------
(***************************************************************************)
(* Wizarr integration for Home Assistant: the refresh aggregator           *)
(* (__init__.py, WizarrDataUpdateCoordinator), the transport client        *)
(* (api.py), the sensor platform (sensor.py): shape normalisation,         *)
(* cross-reference enrichment and the derived views, and the two services  *)
(* create_invitation and send_invitation_email (__init__.py).              *)
(*                                                                         *)
(* JSON values are tagged records; a Python str is its sequence of         *)
(* characters, a Python dict the sequence of its (key, value) pairs in     *)
(* insertion order, None the value PyNone.                                 *)
(***************************************************************************)
EXTENDS Integers, Sequences, FiniteSets, TLC

VARIABLES
    data,                 \* coordinator.data: PyNone before the first refresh, else the Snapshot dict
    last_update_success,  \* coordinator.last_update_success
    pc,                   \* position of _async_update_data: "idle" or "gather"
    results,              \* the gather slots of the cycle, one per task
    last,                 \* the last sensor property evaluated and what it gave
    scenario,             \* the payloads the sensor checks were started from
    svc,                  \* the service call in flight: its position, locals and effects so far
    wizarr,               \* the Wizarr server: the number of invitations it has created
    hass                  \* Home Assistant: hass.data[DOMAIN], the service registry, the config entries

vars == <<data, last_update_success, pc, results, last, scenario, svc, wizarr, hass>>

(***************************************************************************)
(* JSON / Python values                                                    *)
(***************************************************************************)
PyNone == [t |-> "none"]
PyBool(b) == [t |-> "bool", b |-> b]
PyInt(n) == [t |-> "int", n |-> n]
PyStr(s) == [t |-> "str", s |-> s]
PyList(l) == [t |-> "list", l |-> l]
PyDict(d) == [t |-> "dict", d |-> d]

\* a key that a dict does not hold
Absent == [t |-> "absent"]

\* a call's outcome: a returned value, or the exception it raised
Ret(v) == [exc |-> "none", val |-> v]
Raise(e) == [exc |-> e, val |-> PyNone]

isinstance_dict(v) == v.t = "dict"
isinstance_list(v) == v.t = "list"
isinstance_str(v) == v.t = "str"
\* bool is a subclass of int
isinstance_int(v) == v.t \in {"int", "bool"}

\* bool(v), as `if v:` / `not v` / `a and b` evaluate it
Truthy(v) ==
    CASE v.t = "none" -> FALSE
      [] v.t = "bool" -> v.b
      [] v.t = "int" -> v.n # 0
      [] v.t = "str" -> v.s # <<>>
      [] v.t = "list" -> v.l # <<>>
      [] v.t = "dict" -> v.d # <<>>

\* hash(v) succeeds: lists and dicts are unhashable
Hashable(v) == v.t \in {"none", "bool", "int", "str"}

NumOf(v) == IF v.t = "bool" THEN (IF v.b THEN 1 ELSE 0) ELSE v.n

\* a == b for dict keys: True == 1 and False == 0, otherwise equal values of one type
PyEq(a, b) ==
    IF isinstance_int(a) /\ isinstance_int(b) THEN NumOf(a) = NumOf(b) ELSE a = b

\* a value under a name, as an assignment to a local gives it to the code after it
With(v, F(_)) == F(v)

\* a call's outcome handed to the code after the call: an exception leaves at once
Try(r, F(_)) == IF r.exc # "none" THEN Raise(r.exc) ELSE F(r.val)

\* the least index of a set of indices, 0 when there is none
FirstIndex(hits) == IF hits = {} THEN 0 ELSE CHOOSE i \in hits : \A j \in hits : i <= j

\* position of key k in the pairs of dict d, 0 when absent
DictIndex(d, k) == FirstIndex({i \in 1..Len(d.d) : PyEq(d.d[i][1], k)})

\* k in d
DictHas(d, k) == DictIndex(d, k) # 0

\* d.get(k, default)
ValueAt(d, i, default) == IF i = 0 THEN default ELSE d.d[i][2]
DictGet(d, k, default) == ValueAt(d, DictIndex(d, k), default)

\* d[k] = v: an existing key keeps its place (and its key object), a new one is appended
SetAt(d, i, k, v) ==
    IF i = 0 THEN PyDict(Append(d.d, <<k, v>>))
    ELSE PyDict([d.d EXCEPT ![i] = <<d.d[i][1], v>>])
DictSet(d, k, v) == SetAt(d, DictIndex(d, k), k, v)


(***************************************************************************)
(* String literals of the source                                           *)
(***************************************************************************)
s_status == PyStr(<<"s", "t", "a", "t", "u", "s">>)
s_users == PyStr(<<"u", "s", "e", "r", "s">>)
s_invitations == PyStr(<<"i", "n", "v", "i", "t", "a", "t", "i", "o", "n", "s">>)
s_libraries == PyStr(<<"l", "i", "b", "r", "a", "r", "i", "e", "s">>)
s_servers == PyStr(<<"s", "e", "r", "v", "e", "r", "s">>)
s_api_keys == PyStr(<<"a", "p", "i", "_", "k", "e", "y", "s">>)
s_data == PyStr(<<"d", "a", "t", "a">>)
s_count == PyStr(<<"c", "o", "u", "n", "t">>)
s_id == PyStr(<<"i", "d">>)
s_email == PyStr(<<"e", "m", "a", "i", "l">>)
s_username == PyStr(<<"u", "s", "e", "r", "n", "a", "m", "e">>)
s_name == PyStr(<<"n", "a", "m", "e">>)
s_title == PyStr(<<"t", "i", "t", "l", "e">>)
s_server_name == PyStr(<<"s", "e", "r", "v", "e", "r", "_", "n", "a", "m", "e">>)
s_used_by == PyStr(<<"u", "s", "e", "d", "_", "b", "y">>)
s_specific_libraries == PyStr(<<"s", "p", "e", "c", "i", "f", "i", "c", "_", "l", "i", "b", "r", "a", "r", "i", "e", "s">>)
s_server_type == PyStr(<<"s", "e", "r", "v", "e", "r", "_", "t", "y", "p", "e">>)
s_deleted_at == PyStr(<<"d", "e", "l", "e", "t", "e", "d", "_", "a", "t">>)
s_unknown == PyStr(<<"u", "n", "k", "n", "o", "w", "n">>)
s_unavailable == PyStr(<<"u", "n", "a", "v", "a", "i", "l", "a", "b", "l", "e">>)
s_Unknown == PyStr(<<"U", "n", "k", "n", "o", "w", "n">>)
s_raw_data == PyStr(<<"r", "a", "w", "_", "d", "a", "t", "a">>)
s_total_users == PyStr(<<"t", "o", "t", "a", "l", "_", "u", "s", "e", "r", "s">>)
s_total_invitations == PyStr(<<"t", "o", "t", "a", "l", "_", "i", "n", "v", "i", "t", "a", "t", "i", "o", "n", "s">>)
s_total_libraries == PyStr(<<"t", "o", "t", "a", "l", "_", "l", "i", "b", "r", "a", "r", "i", "e", "s">>)
s_total_servers == PyStr(<<"t", "o", "t", "a", "l", "_", "s", "e", "r", "v", "e", "r", "s">>)
s_total_api_keys == PyStr(<<"t", "o", "t", "a", "l", "_", "a", "p", "i", "_", "k", "e", "y", "s">>)
s_users_by_server == PyStr(<<"u", "s", "e", "r", "s", "_", "b", "y", "_", "s", "e", "r", "v", "e", "r">>)
s_invitations_by_status == PyStr(<<"i", "n", "v", "i", "t", "a", "t", "i", "o", "n", "s", "_", "b", "y", "_", "s", "t", "a", "t", "u", "s">>)
s_libraries_by_server == PyStr(<<"l", "i", "b", "r", "a", "r", "i", "e", "s", "_", "b", "y", "_", "s", "e", "r", "v", "e", "r">>)
s_servers_by_type == PyStr(<<"s", "e", "r", "v", "e", "r", "s", "_", "b", "y", "_", "t", "y", "p", "e">>)
s_active_api_keys == PyStr(<<"a", "c", "t", "i", "v", "e", "_", "a", "p", "i", "_", "k", "e", "y", "s">>)
s_inactive_api_keys == PyStr(<<"i", "n", "a", "c", "t", "i", "v", "e", "_", "a", "p", "i", "_", "k", "e", "y", "s">>)
s_total_requests == PyStr(<<"t", "o", "t", "a", "l", "_", "r", "e", "q", "u", "e", "s", "t", "s">>)
s_version == PyStr(<<"v", "e", "r", "s", "i", "o", "n">>)
s_total == PyStr(<<"t", "o", "t", "a", "l">>)
s_online == PyStr(<<"o", "n", "l", "i", "n", "e">>)
s_available == PyStr(<<"a", "v", "a", "i", "l", "a", "b", "l", "e">>)

(***************************************************************************)
(* Python built-ins the sensor code uses                                   *)
(***************************************************************************)
DigitChars == <<"0", "1", "2", "3", "4", "5", "6", "7", "8", "9">>

RECURSIVE NatToStr(_)
NatToStr(n) ==
    IF n < 10 THEN <<DigitChars[n + 1]>>
    ELSE NatToStr(n \div 10) \o <<DigitChars[(n % 10) + 1]>>

IntToStr(n) == IF n < 0 THEN <<"-">> \o NatToStr(0 - n) ELSE NatToStr(n)

\* repr(v) and str(v), as characters; str of a str is the str itself
RECURSIVE repr_of(_)
RECURSIVE repr_items(_, _)
RECURSIVE repr_pairs(_, _)
repr_of(v) ==
    CASE v.t = "none" -> <<"N", "o", "n", "e">>
      [] v.t = "bool" -> IF v.b THEN <<"T", "r", "u", "e">> ELSE <<"F", "a", "l", "s", "e">>
      [] v.t = "int" -> IntToStr(v.n)
      [] v.t = "str" -> <<"'">> \o v.s \o <<"'">>
      [] v.t = "list" -> <<"[">> \o repr_items(v.l, 1) \o <<"]">>
      [] v.t = "dict" -> <<"{">> \o repr_pairs(v.d, 1) \o <<"}">>
repr_items(l, i) ==
    IF i > Len(l) THEN <<>>
    ELSE (IF i > 1 THEN <<",", " ">> ELSE <<>>) \o repr_of(l[i]) \o repr_items(l, i + 1)
repr_pairs(d, i) ==
    IF i > Len(d) THEN <<>>
    ELSE (IF i > 1 THEN <<",", " ">> ELSE <<>>)
         \o repr_of(d[i][1]) \o <<":", " ">> \o repr_of(d[i][2]) \o repr_pairs(d, i + 1)

str_of(v) == IF v.t = "str" THEN v.s ELSE repr_of(v)

\* s.startswith(prefix), s.endswith(suffix)
startswith(s, prefix) == Len(s) >= Len(prefix) /\ SubSeq(s, 1, Len(prefix)) = prefix
endswith(s, suffix) ==
    Len(s) >= Len(suffix) /\ SubSeq(s, Len(s) - Len(suffix) + 1, Len(s)) = suffix

\* s.replace(old, ""): every occurrence of old removed, left to right
RECURSIVE replace_with_empty(_, _)
replace_with_empty(s, old) ==
    IF Len(s) < Len(old) THEN s
    ELSE IF SubSeq(s, 1, Len(old)) = old
         THEN replace_with_empty(SubSeq(s, Len(old) + 1, Len(s)), old)
         ELSE <<s[1]>> \o replace_with_empty(Tail(s), old)

Whitespace == {" ", "\t", "\n"}

\* s.strip()
RECURSIVE lstrip(_)
lstrip(s) == IF s # <<>> /\ s[1] \in Whitespace THEN lstrip(Tail(s)) ELSE s
RECURSIVE rstrip(_)
rstrip(s) ==
    IF s # <<>> /\ s[Len(s)] \in Whitespace THEN rstrip(SubSeq(s, 1, Len(s) - 1)) ELSE s
strip(s) == rstrip(lstrip(s))

DigitValue(c) == CHOOSE d \in 0..9 : DigitChars[d + 1] = c
IsDigit(c) == \E d \in 0..9 : DigitChars[d + 1] = c

\* the digits of an int literal: digits, single underscores only between digits
RECURSIVE digits_value(_, _, _)
digits_value(s, i, acc) ==
    IF i > Len(s) THEN [ok |-> TRUE, n |-> acc]
    ELSE IF IsDigit(s[i]) THEN digits_value(s, i + 1, acc * 10 + DigitValue(s[i]))
    ELSE IF s[i] = "_" /\ i > 1 /\ i < Len(s) /\ IsDigit(s[i - 1]) /\ IsDigit(s[i + 1])
         THEN digits_value(s, i + 1, acc)
    ELSE [ok |-> FALSE, n |-> 0]

\* int(s): surrounding whitespace, an optional sign, digits; ok = FALSE is ValueError
int_of(s) ==
    With(strip(s), LAMBDA b :
    With(b # <<>> /\ b[1] \in {"+", "-"}, LAMBDA signed :
    With(IF signed THEN Tail(b) ELSE b, LAMBDA ds :
    With(digits_value(ds, 1, 0), LAMBDA r :
    IF ds = <<>> \/ ~r.ok THEN [ok |-> FALSE, n |-> 0]
    ELSE [ok |-> TRUE, n |-> IF signed /\ b[1] = "-" THEN 0 - r.n ELSE r.n]))))

\* iter(v), as `for x in v` needs it: the items of a list, the characters of a
\* str, the keys of a dict; anything else raises TypeError
iter_of(v) ==
    CASE v.t = "list" -> Ret(v.l)
      [] v.t = "str" -> Ret([i \in 1..Len(v.s) |-> PyStr(<<v.s[i]>>)])
      [] v.t = "dict" -> Ret([i \in 1..Len(v.d) |-> v.d[i][1]])
      [] OTHER -> Raise("TypeError")

\* len(v): TypeError for a value without a length
len_of(v) ==
    CASE v.t = "list" -> Ret(PyInt(Len(v.l)))
      [] v.t = "str" -> Ret(PyInt(Len(v.s)))
      [] v.t = "dict" -> Ret(PyInt(Len(v.d)))
      [] OTHER -> Raise("TypeError")

(***************************************************************************)
(* Transport client (api.py)                                               *)
(***************************************************************************)
\* what the server (or the network) answers to one request
NetworkFailure == [net |-> "error"]
HttpResponse(status, body) == [net |-> "ok", status |-> status, body |-> body]

\* WizarrAPIClient._request: the decoded body on 200/201, Exception("Invalid API key")
\* on 401; otherwise response.raise_for_status(), which raises ClientResponseError
\* only for a status >= 400, and the method then ends without a return statement
request(resp) ==
    IF resp.net = "error" THEN Raise("ClientError")
    ELSE IF resp.status \in {200, 201} THEN Ret(resp.body)
    ELSE IF resp.status = 401 THEN Raise("Exception")
    ELSE IF resp.status >= 400 THEN Raise("ClientResponseError")
    ELSE Ret(PyNone)

(***************************************************************************)
(* Refresh aggregator (__init__.py, WizarrDataUpdateCoordinator)           *)
(***************************************************************************)
\* the endpoint names of the task list, in its order
tasks == <<s_status, s_users, s_invitations, s_libraries, s_servers, s_api_keys>>

Pending == [exc |-> "pending", val |-> PyNone]

\* isinstance(result, Exception)
isinstance_Exception(result) == result.exc \notin {"none", "pending"}

\* a slip of the loop: a failed slot leaves its key out of the dict
store_result_skip_failed(d, endpoint, result) ==
    IF isinstance_Exception(result) THEN d ELSE DictSet(d, endpoint, result.val)

\* one turn of the loop over zip(tasks, results): the slot's exception is logged
\* and the key set to None, a returned value is stored as it is
store_result(d, endpoint, result) ==
    IF isinstance_Exception(result)
    THEN DictSet(d, endpoint, PyNone)
    ELSE DictSet(d, endpoint, result.val)

\* the loop over zip(tasks, results), from slot i on, filling the dict d
RECURSIVE collect_results(_, _, _)
collect_results(d, res, i) ==
    IF i > Len(tasks) THEN d
    ELSE collect_results(store_result(d, tasks[i], res[i]), res, i + 1)

\* _async_update_data once gather has returned: the Snapshot it returns
async_update_data(res) == Ret(collect_results(PyDict(<<>>), res, 1))


\* the body a healthy server sends for task i
EndpointPayload(i) ==
    IF i = 1 THEN PyDict(<<<<s_version, PyInt(1)>>>>)
    ELSE PyList(<<PyDict(<<<<s_id, PyInt(i)>>>>)>>)

\* the answers drawn for one sub-fetch of task i: no answer at all, the payload
\* or a null body with 200, 204 No Content, 401
Responses(i) ==
    { NetworkFailure,
      HttpResponse(200, EndpointPayload(i)),
      HttpResponse(200, PyNone),
      HttpResponse(204, PyNone),
      HttpResponse(401, PyNone) }

\* the scheduler starts a cycle: the six coroutines are created and handed to
\* asyncio.gather, none waits for another
StartRefresh ==
    /\ pc = "idle"
    /\ pc' = "gather"
    /\ results' = [i \in 1..Len(tasks) |-> Pending]
    /\ UNCHANGED <<data, last_update_success, last, scenario, svc, wizarr, hass>>

\* one sub-fetch ends, in any order: client.get_<endpoint>() returns or raises
CompleteFetch(i, resp) ==
    /\ pc = "gather"
    /\ results[i] = Pending
    /\ results' = [results EXCEPT ![i] = request(resp)]
    /\ UNCHANGED <<data, last_update_success, pc, last, scenario, svc, wizarr, hass>>

\* a slip of the join: the first sub-fetch to end lets the cycle go on
gather_returns_on_first(res) == \E i \in 1..Len(tasks) : res[i] # Pending

\* await asyncio.gather(..., return_exceptions=True) returns once every
\* awaitable has returned or raised
gather_returns(res) == \A i \in 1..Len(tasks) : res[i] # Pending

\* gather returns once every slot is filled; the Snapshot is built and returned,
\* and the coordinator publishes it as coordinator.data
FinishRefresh ==
    /\ pc = "gather"
    /\ gather_returns(results)
    /\ LET r == async_update_data(results)
       IN  /\ data' = IF r.exc = "none" THEN r.val ELSE data
           /\ last_update_success' = (r.exc = "none")
    /\ pc' = "idle"
    /\ UNCHANGED <<results, last, scenario, svc, wizarr, hass>>

NoSensorCall == [op |-> "none", sensor |-> PyNone, exc |-> "none", val |-> PyNone]
NoScenario == [kind |-> "none"]

\* the config entries of the integration, and Home Assistant before any of them is
\* set up: no hass.data[DOMAIN], no service of the domain, no service call made
MaxEntries == 2
EntryIds == 1..MaxEntries
NoHass ==
    [data |-> {}, create_invitation |-> 0, send_invitation_email |-> 0,
     entries |-> [e \in EntryIds |-> "not_loaded"], call |-> [service |-> "none", client |-> 0]]

\* no service call has been made
NoCall ==
    [name |-> "none", pc |-> "none", call |-> PyNone, invitation_data |-> PyNone,
     invitation |-> PyNone, invitation_url |-> PyNone, raised |-> "none", trace |-> <<>>]

Init ==
    /\ data = PyNone
    /\ last_update_success = FALSE
    /\ pc = "idle"
    /\ results = [i \in 1..Len(tasks) |-> Pending]
    /\ last = NoSensorCall
    /\ svc = NoCall
    /\ wizarr = 0
    /\ hass = NoHass
    /\ scenario = NoScenario

Next ==
    \/ StartRefresh
    \/ \E i \in 1..Len(tasks) : \E resp \in Responses(i) : CompleteFetch(i, resp)
    \/ FinishRefresh

Spec == Init /\ [][Next]_vars


(***************************************************************************)
(* Sensor platform (sensor.py): cross-reference resolver                   *)
(***************************************************************************)
\* the literals of the resolver
c_User_open == <<"<", "U", "s", "e", "r", " ">>
c_close == <<">">>
c_User_sp == <<"U", "s", "e", "r", " ">>
c_Library_sp == <<"L", "i", "b", "r", "a", "r", "y", " ">>

\* for key, value in d.items(): the first value that is a list under a key other
\* than "count", from pair i on; [] when there is none
RECURSIVE first_list_value(_, _)
first_list_value(d, i) ==
    IF i > Len(d.d) THEN PyList(<<>>)
    ELSE IF isinstance_list(d.d[i][2]) /\ d.d[i][1] # s_count THEN d.d[i][2]
    ELSE first_list_value(d, i + 1)

\* a slip of the order: the entity key is looked up before "data"
extract_list_entity_first(payload, entity) ==
    IF isinstance_dict(payload)
    THEN IF DictHas(payload, entity) THEN DictGet(payload, entity, PyList(<<>>))
         ELSE IF DictHas(payload, s_data) THEN DictGet(payload, s_data, PyList(<<>>))
         ELSE first_list_value(payload, 1)
    ELSE IF isinstance_list(payload) THEN payload
    ELSE PyList(<<>>)

\* "Handle different response structures": the record list the resolver takes from
\* a payload, entity being "users", "libraries" or "invitations"
extract_list(payload, entity) ==
    IF isinstance_dict(payload)
    THEN IF DictHas(payload, s_data) THEN DictGet(payload, s_data, PyList(<<>>))
         ELSE IF DictHas(payload, entity) THEN DictGet(payload, entity, PyList(<<>>))
         ELSE first_list_value(payload, 1)
    ELSE IF isinstance_list(payload) THEN payload
    ELSE PyList(<<>>)

\* a slip of the label: the username alone whenever there is one
user_display_name_username_only(user_id, email, username) ==
    IF Truthy(username) THEN username
    ELSE IF Truthy(email) THEN email
    ELSE PyStr(c_User_sp \o str_of(user_id))

\* the display string of one user record
user_display_name(user_id, email, username) ==
    IF Truthy(email) /\ Truthy(username)
    THEN PyStr(str_of(username) \o <<" ", "(">> \o str_of(email) \o <<")">>)
    ELSE IF Truthy(email) THEN email
    ELSE IF Truthy(username) THEN username
    ELSE PyStr(c_User_sp \o str_of(user_id))

\* for user in users_list, from item i on
RECURSIVE user_loop(_, _, _)
user_loop(items, i, user_lookup) ==
    IF i > Len(items) THEN Ret(user_lookup)
    ELSE IF ~isinstance_dict(items[i]) THEN user_loop(items, i + 1, user_lookup)
    ELSE With(DictGet(items[i], s_id, PyNone), LAMBDA user_id :
         IF ~Truthy(user_id) THEN user_loop(items, i + 1, user_lookup)
         ELSE IF ~Hashable(user_id) THEN Raise("TypeError")
         ELSE user_loop(items, i + 1,
                        DictSet(user_lookup, user_id,
                                user_display_name(user_id,
                                                  DictGet(items[i], s_email, PyNone),
                                                  DictGet(items[i], s_username, PyNone)))))

\* "Build user lookup map": user_lookup from coordinator.data.get("users")
build_user_lookup(users_data) ==
    IF ~Truthy(users_data) THEN Ret(PyDict(<<>>))
    ELSE Try(iter_of(extract_list(users_data, s_users)), LAMBDA users_list :
         user_loop(users_list, 1, PyDict(<<>>)))

\* library.get("name", library.get("title", f"Library {library_id}"))
library_name_of_record(library) ==
    DictGet(library, s_name,
            DictGet(library, s_title,
                    PyStr(c_Library_sp \o str_of(DictGet(library, s_id, PyNone)))))

\* the display string of one library record
library_display_name(library) ==
    With(library_name_of_record(library), LAMBDA library_name :
    With(DictGet(library, s_server_name, PyStr(<<>>)), LAMBDA server_name :
    IF Truthy(server_name) /\ server_name # s_Unknown
    THEN PyStr(str_of(library_name) \o <<" ", "(">> \o str_of(server_name) \o <<")">>)
    ELSE library_name))

\* for library in libraries_list, from item i on
RECURSIVE library_loop(_, _, _)
library_loop(items, i, library_lookup) ==
    IF i > Len(items) THEN Ret(library_lookup)
    ELSE IF ~isinstance_dict(items[i]) THEN library_loop(items, i + 1, library_lookup)
    ELSE With(DictGet(items[i], s_id, PyNone), LAMBDA library_id :
         IF ~Truthy(library_id) THEN library_loop(items, i + 1, library_lookup)
         ELSE IF ~Hashable(library_id) THEN Raise("TypeError")
         ELSE library_loop(items, i + 1,
                           DictSet(library_lookup, library_id,
                                   library_display_name(items[i]))))

\* "Build library lookup map": library_lookup from coordinator.data.get("libraries")
build_library_lookup(libraries_data) ==
    IF ~Truthy(libraries_data) THEN Ret(PyDict(<<>>))
    ELSE Try(iter_of(extract_list(libraries_data, s_libraries)), LAMBDA libraries_list :
         library_loop(libraries_list, 1, PyDict(<<>>)))


\* invitation["used_by"] = user_lookup[user_id] when user_id is a key of the table
replace_used_by(invitation, user_lookup, user_id) ==
    IF DictHas(user_lookup, user_id)
    THEN Ret(DictSet(invitation, s_used_by, DictGet(user_lookup, user_id, PyNone)))
    ELSE Ret(invitation)

\* "Handle used_by field": the invitation with used_by replaced when it resolves
enrich_used_by(invitation, user_lookup) ==
    IF ~DictHas(invitation, s_used_by) THEN Ret(invitation)
    ELSE With(DictGet(invitation, s_used_by, PyNone), LAMBDA used_by :
         IF isinstance_str(used_by) /\ startswith(used_by.s, c_User_open)
                                     /\ endswith(used_by.s, c_close)
         THEN With(int_of(strip(replace_with_empty(
                       replace_with_empty(used_by.s, c_User_open), c_close))),
                   LAMBDA parsed :
                   IF parsed.ok
                   THEN replace_used_by(invitation, user_lookup, PyInt(parsed.n))
                   ELSE Ret(invitation))
         ELSE IF Truthy(used_by) /\ isinstance_dict(used_by)
         THEN With(DictGet(used_by, s_id, PyNone), LAMBDA user_id :
                   IF ~Truthy(user_id) THEN Ret(invitation)
                   ELSE IF ~Hashable(user_id) THEN Raise("TypeError")
                   ELSE replace_used_by(invitation, user_lookup, user_id))
         ELSE IF isinstance_int(used_by)
         THEN replace_used_by(invitation, user_lookup, used_by)
         ELSE Ret(invitation))

\* the name one element of specific_libraries is replaced by
library_name_of(lib_id, library_lookup) ==
    IF isinstance_int(lib_id) /\ DictHas(library_lookup, lib_id)
    THEN Ret(DictGet(library_lookup, lib_id, PyNone))
    ELSE IF isinstance_dict(lib_id) /\ DictHas(lib_id, s_id)
    THEN With(DictGet(lib_id, s_id, PyNone), LAMBDA lookup_id :
              IF ~Hashable(lookup_id) THEN Raise("TypeError")
              ELSE IF DictHas(library_lookup, lookup_id)
              THEN Ret(DictGet(library_lookup, lookup_id, PyNone))
              ELSE Ret(DictGet(lib_id, s_name, PyStr(c_Library_sp \o str_of(lookup_id)))))
    ELSE Ret(PyStr(str_of(lib_id)))

\* for lib_id in specific_libs, from element i on
RECURSIVE library_names_loop(_, _, _, _)
library_names_loop(specific_libs, i, library_names, library_lookup) ==
    IF i > Len(specific_libs) THEN Ret(PyList(library_names))
    ELSE Try(library_name_of(specific_libs[i], library_lookup), LAMBDA name :
         library_names_loop(specific_libs, i + 1, Append(library_names, name),
                            library_lookup))

\* "Handle specific_libraries field"
enrich_specific_libraries(invitation, library_lookup) ==
    IF ~DictHas(invitation, s_specific_libraries) THEN Ret(invitation)
    ELSE With(DictGet(invitation, s_specific_libraries, PyNone), LAMBDA specific_libs :
         IF isinstance_list(specific_libs) /\ Truthy(specific_libs)
         THEN Try(library_names_loop(specific_libs.l, 1, <<>>, library_lookup),
                  LAMBDA library_names :
                  Ret(DictSet(invitation, s_specific_libraries, library_names)))
         ELSE Ret(invitation))

\* the list with its record i as the loop's turn left it: the turn's exception,
\* if any, leaves the loop with it
record_left(items, i, exc, record) == [exc |-> exc, val |-> [items EXCEPT ![i] = record]]

\* one turn of the loop on record i: used_by first, then specific_libraries on the
\* record as used_by left it
invitation_turn(items, i, user_lookup, library_lookup) ==
    With(enrich_used_by(items[i], user_lookup), LAMBDA u :
    IF u.exc # "none" THEN record_left(items, i, u.exc, items[i])
    ELSE With(enrich_specific_libraries(u.val, library_lookup), LAMBDA l :
         IF l.exc # "none" THEN record_left(items, i, l.exc, u.val)
         ELSE record_left(items, i, "none", l.val)))

\* for invitation in invitations_list, from item i on: the records are changed in
\* place, so val is the list as it stands when the loop ends or raises
RECURSIVE invitation_loop(_, _, _, _)
invitation_loop(items, i, user_lookup, library_lookup) ==
    IF i > Len(items) THEN Ret(items)
    ELSE IF ~isinstance_dict(items[i])
    THEN invitation_loop(items, i + 1, user_lookup, library_lookup)
    ELSE With(invitation_turn(items, i, user_lookup, library_lookup), LAMBDA turn :
         IF turn.exc # "none" THEN turn
         ELSE invitation_loop(turn.val, i + 1, user_lookup, library_lookup))

\* the key under which extract_list found the list of a dict payload, None when
\* it found none
list_key(payload, entity) ==
    IF DictHas(payload, s_data) THEN s_data
    ELSE IF DictHas(payload, entity) THEN entity
    ELSE With(FirstIndex({i \in 1..Len(payload.d) :
                             isinstance_list(payload.d[i][2]) /\ payload.d[i][1] # s_count}),
              LAMBDA i : IF i = 0 THEN PyNone ELSE payload.d[i][1])

\* enriched_data with the list that extract_list took from it replaced by new_list
\* (the list is part of enriched_data: a change to its records is a change to it)
with_list(payload, entity, new_list) ==
    IF isinstance_dict(payload)
    THEN With(list_key(payload, entity), LAMBDA key :
              IF key = PyNone THEN payload ELSE DictSet(payload, key, new_list))
    ELSE IF isinstance_list(payload) THEN new_list
    ELSE payload

\* a slip of the copy: the loop writes to the stored payload itself
copy_alias == "stored"

\* copy.deepcopy(invitations_data): the object the loop writes to is a fresh copy
\* ("copy"), not the payload stored in coordinator.data ("stored")
copy_deepcopy == "copy"

\* the outcome of a call that also tells coordinator.data as the call leaves it
Outcome(exc, val, cdata) == [exc |-> exc, val |-> val, cdata |-> cdata]
TryKeeping(r, cdata, F(_)) ==
    IF r.exc # "none" THEN Outcome(r.exc, PyNone, cdata) ELSE F(r.val)

\* coordinator.data once the loop has written to the list it was given
data_after_loop(cdata, enriched_data, list_after) ==
    IF copy_deepcopy = "stored"
    THEN DictSet(cdata, s_invitations, with_list(enriched_data, s_invitations, list_after))
    ELSE cdata

\* _enrich_invitations_with_user_emails(invitations_data), coordinator.data being
\* cdata: what it returns or raises, and coordinator.data as the call leaves it
enrich_invitations_with_user_emails(invitations_data, cdata) ==
    IF ~Truthy(invitations_data) \/ ~Truthy(cdata)
    THEN Outcome("none", invitations_data, cdata)
    ELSE
    TryKeeping(build_user_lookup(DictGet(cdata, s_users, PyNone)), cdata,
               LAMBDA user_lookup :
    TryKeeping(build_library_lookup(DictGet(cdata, s_libraries, PyNone)), cdata,
               LAMBDA library_lookup :
    With(extract_list(invitations_data, s_invitations), LAMBDA invitations_list :
    TryKeeping(iter_of(invitations_list), cdata, LAMBDA items :
    With(invitation_loop(items, 1, user_lookup, library_lookup), LAMBDA done :
    \* the list object after the loop: only a list has records to change
    With(IF isinstance_list(invitations_list) THEN PyList(done.val) ELSE invitations_list,
         LAMBDA list_after :
    Outcome(done.exc, IF done.exc = "none" THEN list_after ELSE PyNone,
            data_after_loop(cdata, invitations_data, list_after))))))))


(***************************************************************************)
(* Sensor platform (sensor.py): derived-view builder                       *)
(***************************************************************************)
SENSOR_TYPES == {s_status, s_users, s_invitations, s_libraries, s_servers, s_api_keys}

\* the record list a list-bearing sensor counts: data["data"] of a dict that has
\* the key, a list as it is, otherwise []
view_list(sensor_data) ==
    IF isinstance_dict(sensor_data) /\ DictHas(sensor_data, s_data)
    THEN DictGet(sensor_data, s_data, PyNone)
    ELSE IF isinstance_list(sensor_data) THEN sensor_data ELSE PyList(<<>>)

\* the counting loop, from item i on: item.get(field, "unknown") needs a dict
\* (AttributeError otherwise) and a hashable value (TypeError otherwise)
RECURSIVE count_by(_, _, _, _)
count_by(items, i, field, counts) ==
    IF i > Len(items) THEN Ret(counts)
    ELSE IF ~isinstance_dict(items[i]) THEN Raise("AttributeError")
    ELSE With(DictGet(items[i], field, s_unknown), LAMBDA group :
         IF ~Hashable(group) THEN Raise("TypeError")
         ELSE count_by(items, i + 1, field,
                       DictSet(counts, group, PyInt(DictGet(counts, group, PyInt(0)).n + 1))))

\* sum(1 for key in keys_list if not key.get("deleted_at")), from item i on
RECURSIVE count_active(_, _, _)
count_active(items, i, n) ==
    IF i > Len(items) THEN Ret(PyInt(n))
    ELSE IF ~isinstance_dict(items[i]) THEN Raise("AttributeError")
    ELSE count_active(items, i + 1,
                      IF Truthy(DictGet(items[i], s_deleted_at, PyNone)) THEN n ELSE n + 1)

\* the status sensor copies these keys of the payload
RECURSIVE copy_status_keys(_, _, _, _)
copy_status_keys(keys, i, sensor_data, attributes) ==
    IF i > Len(keys) THEN attributes
    ELSE copy_status_keys(keys, i + 1, sensor_data,
            IF DictHas(sensor_data, keys[i])
            THEN DictSet(attributes, keys[i], DictGet(sensor_data, keys[i], PyNone))
            ELSE attributes)

\* total_<entity> and the group-by histogram of users, invitations, libraries, servers
histogram_attributes(sensor_data, attributes, total_key, field, by_key) ==
    With(view_list(sensor_data), LAMBDA records :
    Try(len_of(records), LAMBDA n :
    With(DictSet(attributes, total_key, n), LAMBDA with_total :
    IF ~Truthy(records) THEN Ret(with_total)
    ELSE Try(iter_of(records), LAMBDA items :
         Try(count_by(items, 1, field, PyDict(<<>>)), LAMBDA counts :
         Ret(DictSet(with_total, by_key, counts)))))))

\* total_api_keys, active_api_keys and inactive_api_keys
api_keys_attributes(sensor_data, attributes) ==
    With(view_list(sensor_data), LAMBDA keys_list :
    Try(len_of(keys_list), LAMBDA n :
    With(DictSet(attributes, s_total_api_keys, n), LAMBDA with_total :
    IF ~Truthy(keys_list) THEN Ret(with_total)
    ELSE Try(iter_of(keys_list), LAMBDA items :
         Try(count_active(items, 1, 0), LAMBDA active :
         Ret(DictSet(DictSet(with_total, s_active_api_keys, active),
                     s_inactive_api_keys, PyInt(n.n - active.n))))))))

\* the grouping field and the histogram key of the four sensors with a histogram
group_field(sensor_type) ==
    CASE sensor_type = s_users -> s_server_type
      [] sensor_type = s_invitations -> s_status
      [] sensor_type = s_libraries -> s_server_name
      [] sensor_type = s_servers -> s_server_type
histogram_key(sensor_type) ==
    CASE sensor_type = s_users -> s_users_by_server
      [] sensor_type = s_invitations -> s_invitations_by_status
      [] sensor_type = s_libraries -> s_libraries_by_server
      [] sensor_type = s_servers -> s_servers_by_type
total_key_of(sensor_type) ==
    CASE sensor_type = s_users -> s_total_users
      [] sensor_type = s_invitations -> s_total_invitations
      [] sensor_type = s_libraries -> s_total_libraries
      [] sensor_type = s_servers -> s_total_servers

\* "Add specific attributes based on sensor type"
specific_attributes(sensor_type, sensor_data, attributes) ==
    IF sensor_type = s_status
    THEN IF isinstance_dict(sensor_data)
         THEN Ret(copy_status_keys(<<s_total_users, s_total_invitations, s_total_requests,
                                     s_version>>, 1, sensor_data, attributes))
         ELSE Ret(attributes)
    ELSE IF ~(isinstance_list(sensor_data) \/ isinstance_dict(sensor_data))
    THEN Ret(attributes)
    ELSE IF sensor_type = s_api_keys THEN api_keys_attributes(sensor_data, attributes)
    ELSE histogram_attributes(sensor_data, attributes, total_key_of(sensor_type),
                              group_field(sensor_type), histogram_key(sensor_type))

\* WizarrSensor.extra_state_attributes of the sensor of type sensor_type, with
\* coordinator.data being cdata: what it returns or raises, and coordinator.data
\* as the call leaves it
extra_state_attributes(sensor_type, cdata) ==
    IF cdata = PyNone THEN Outcome("none", PyDict(<<>>), cdata)
    ELSE
    With(DictGet(cdata, sensor_type, PyNone), LAMBDA sensor_data :
    IF sensor_data = PyNone
    THEN Outcome("none", PyDict(<<<<s_status, s_unavailable>>>>), cdata)
    ELSE IF sensor_type = s_invitations
    THEN With(enrich_invitations_with_user_emails(sensor_data, cdata), LAMBDA e :
         IF e.exc # "none" THEN Outcome(e.exc, PyNone, e.cdata)
         ELSE With(specific_attributes(sensor_type, sensor_data,
                                       PyDict(<<<<s_invitations, e.val>>>>)),
                   LAMBDA r : Outcome(r.exc, r.val, e.cdata)))
    ELSE With(specific_attributes(sensor_type, sensor_data,
                                  PyDict(<<<<s_raw_data, sensor_data>>>>)),
              LAMBDA r : Outcome(r.exc, r.val, cdata)))

\* a slip of native_value: the None entry of a failed endpoint is not looked at
native_value_no_marker(sensor_type, cdata) ==
    IF cdata = PyNone THEN PyNone
    ELSE IF sensor_type = s_status THEN s_online
    ELSE PyStr(str_of(DictGet(cdata, sensor_type, PyNone)))

\* WizarrSensor.native_value of the sensor of type sensor_type, with
\* coordinator.data being cdata: the state the sensor shows (no path raises)
native_value(sensor_type, cdata) ==
    IF cdata = PyNone THEN PyNone
    ELSE
    With(DictGet(cdata, sensor_type, PyNone), LAMBDA sensor_data :
    IF sensor_data = PyNone THEN s_unavailable
    ELSE IF sensor_type = s_status THEN s_online
    ELSE IF isinstance_list(sensor_data) THEN PyInt(Len(sensor_data.l))
    ELSE IF isinstance_dict(sensor_data)
    THEN IF DictHas(sensor_data, s_total) THEN DictGet(sensor_data, s_total, PyNone)
         ELSE IF DictHas(sensor_data, s_count) THEN DictGet(sensor_data, s_count, PyNone)
         ELSE IF isinstance_list(DictGet(sensor_data, s_data, PyNone))
         THEN PyInt(Len(DictGet(sensor_data, s_data, PyNone).l))
         ELSE s_available
    ELSE PyStr(str_of(sensor_data)))

(***************************************************************************)
(* Inputs of the sensor checks: payloads a server can send                 *)
(***************************************************************************)
v_bob == PyStr(<<"b", "o", "b">>)
v_al == PyStr(<<"a", "l">>)
v_bob_mail == PyStr(<<"b", "@", "x", ".", "c", "o", "m">>)
v_mail == PyStr(<<"e", "@", "y", ".", "i", "o">>)
v_zed == PyStr(<<"z", "e", "d">>)
v_sv == PyStr(<<"s", "v">>)
v_Movies == PyStr(<<"M", "o", "v", "i", "e", "s">>)
v_ServerA == PyStr(<<"S", "e", "r", "v", "e", "r", "A">>)
v_Shows == PyStr(<<"S", "h", "o", "w", "s">>)
v_N == PyStr(<<"N">>)
v_q == PyStr(<<"q">>)
v_plex == PyStr(<<"p", "l", "e", "x">>)
v_pending == PyStr(<<"p", "e", "n", "d", "i", "n", "g">>)
v_items == PyStr(<<"i", "t", "e", "m", "s">>)
v_page == PyStr(<<"p", "a", "g", "e">>)
v_no_id == PyStr(<<"n", "o", "_", "i", "d">>)
v_ab == PyStr(<<"a", "b">>)
v_seven == PyStr(<<"7">>)
v_two == PyStr(<<"2">>)
v_five == PyStr(<<"5">>)
v_User2 == PyStr(<<"<", "U", "s", "e", "r", " ", "2", ">">>)
v_User1 == PyStr(<<"<", "U", "s", "e", "r", " ", "1", ">">>)
v_User9 == PyStr(<<"<", "U", "s", "e", "r", " ", "9", ">">>)
v_Userx == PyStr(<<"<", "U", "s", "e", "r", " ", "x", ">">>)
v_UserNone == PyStr(<<"<", "U", "s", "e", "r", " ", ">">>)
v_UserSp == PyStr(<<"<", "U", "s", "e", "r", " ", " ", "2", " ", ">">>)
v_UserPlus == PyStr(<<"<", "U", "s", "e", "r", " ", "+", "2", ">">>)
v_UserGG == PyStr(<<"<", "U", "s", "e", "r", " ", "2", ">", ">">>)
v_UserNested == PyStr(<<"<", "U", "s", "e", "r", " ", "<", "U", "s", "e", "r", " ", "2", ">", ">">>)
v_UserOpen == PyStr(<<"<", "U", "s", "e", "r", " ", "2">>)
v_bob_label == PyStr(<<"b", "o", "b", " ", "(", "b", "@", "x", ".", "c", "o", "m", ")">>)
v_Movies_label == PyStr(<<"M", "o", "v", "i", "e", "s", " ", "(", "S", "e", "r", "v", "e", "r", "A", ")">>)
v_99 == PyStr(<<"9", "9">>)


\* bounds of the inputs
MaxRecords == 3
MaxUsers == 3
MaxInvitations == 2
MaxLibraryRefs == 2

SeqsUpTo(S, n) == UNION {[1..k -> S] : k \in 0..n}

Rec1(k1, v1) == PyDict(<<<<k1, v1>>>>)
Rec2(k1, v1, k2, v2) == PyDict(<<<<k1, v1>>, <<k2, v2>>>>)
Rec3(k1, v1, k2, v2, k3, v3) == PyDict(<<<<k1, v1>>, <<k2, v2>>, <<k3, v3>>>>)

\* a Snapshot with these six payloads
Snapshot(st, us, inv, lib, srv, keys) ==
    PyDict(<<<<s_status, st>>, <<s_users, us>>, <<s_invitations, inv>>,
             <<s_libraries, lib>>, <<s_servers, srv>>, <<s_api_keys, keys>>>>)

ListEndpoints == {s_users, s_invitations, s_libraries, s_servers, s_api_keys}

\* payloads of a healthy server
StatusPayload == Rec1(s_version, PyInt(1))
UserBob == Rec3(s_id, PyInt(1), s_username, v_bob, s_email, v_bob_mail)
UserAl == Rec2(s_id, PyInt(2), s_username, v_al)
LibraryMovies == Rec3(s_id, PyInt(5), s_name, v_Movies, s_server_name, v_ServerA)
DefaultUsers == PyList(<<UserBob, UserAl>>)
DefaultLibraries == PyList(<<LibraryMovies>>)
DefaultInvitations ==
    PyList(<<PyDict(<<<<s_id, PyInt(10)>>, <<s_used_by, v_User2>>,
                      <<s_specific_libraries, PyList(<<PyInt(5), PyInt(99)>>)>>>>)>>)
DefaultServers == PyList(<<Rec2(s_id, PyInt(1), s_server_type, v_plex)>>)
DefaultKeys == PyList(<<Rec1(s_id, PyInt(1))>>)

\* the Snapshot with the payload of one endpoint replaced
SnapshotWith(endpoint, payload) ==
    DictSet(Snapshot(StatusPayload, DefaultUsers, DefaultInvitations, DefaultLibraries,
                     DefaultServers, DefaultKeys), endpoint, payload)

\* --- the four supported shapes of one record list
ShapeRecords ==
    { PyDict(<<<<s_id, PyInt(1)>>, <<s_username, v_al>>, <<s_name, v_Movies>>,
               <<s_status, v_pending>>, <<s_server_type, v_plex>>,
               <<s_server_name, v_ServerA>>, <<s_used_by, PyInt(1)>>>>),
      Rec1(s_id, PyInt(2)) }
Shapes == {"bare", "data", "entity", "mixed"}
ShapePayload(endpoint, L, shape) ==
    CASE shape = "bare" -> PyList(L)
      [] shape = "data" -> Rec1(s_data, PyList(L))
      [] shape = "entity" -> Rec1(endpoint, PyList(L))
      [] shape = "mixed" -> Rec3(s_total, PyInt(Len(L)), v_items, PyList(L), v_page, PyInt(1))
ShapeScenarios ==
    { [kind |-> "shape", endpoint |-> e, L |-> L, shape |-> sh,
       data |-> SnapshotWith(e, ShapePayload(e, L, sh))] :
      e \in ListEndpoints, L \in SeqsUpTo(ShapeRecords, MaxRecords), sh \in Shapes }

\* --- payloads without records, and mappings whose data or entity key holds no list
NonSequences == {PyNone, PyInt(5), v_ab}
EmptyPayloads(endpoint) ==
    { PyNone, PyDict(<<>>), PyList(<<>>),
      Rec1(s_total, PyInt(0)), Rec2(s_count, PyInt(0), v_page, PyInt(1)),
      Rec1(s_data, PyNone), Rec2(s_data, PyInt(0), s_total, PyInt(0)),
      Rec1(endpoint, PyNone) }
MismatchPayloads(endpoint) ==
    UNION { { Rec1(s_data, x),
              Rec2(s_data, x, endpoint, PyList(<<Rec1(s_id, PyInt(2))>>)),
              Rec2(s_data, x, v_items, PyList(<<Rec1(s_id, PyInt(2))>>)),
              Rec1(endpoint, x),
              Rec2(endpoint, x, v_items, PyList(<<Rec1(s_id, PyInt(2))>>)) } :
            x \in NonSequences }
EmptyScenarios ==
    UNION { { [kind |-> "empty", endpoint |-> e, payload |-> p, data |-> SnapshotWith(e, p)] :
              p \in EmptyPayloads(e) } : e \in ListEndpoints }
MismatchScenarios ==
    UNION { { [kind |-> "mismatch", endpoint |-> e, payload |-> p, data |-> SnapshotWith(e, p)] :
              p \in MismatchPayloads(e) } : e \in ListEndpoints }

\* --- user records, for the user lookup table
UserRecords ==
    { UserBob, UserAl, Rec1(v_no_id, PyBool(TRUE)),
      Rec2(s_id, PyInt(3), s_email, v_mail),
      Rec1(s_id, PyInt(4)),
      Rec2(s_id, PyInt(0), s_username, v_zed),
      Rec3(s_id, PyInt(2), s_username, PyStr(<<>>), s_email, v_mail) }
UserInvitations ==
    PyList(<<Rec2(s_id, PyInt(10), s_used_by, PyInt(1)),
             Rec2(s_id, PyInt(11), s_used_by, v_User2)>>)
UserScenarios ==
    { [kind |-> "users", users |-> L,
       data |-> Snapshot(StatusPayload, PyList(L), UserInvitations, DefaultLibraries,
                         DefaultServers, DefaultKeys)] :
      L \in SeqsUpTo(UserRecords, MaxUsers) }

\* --- used_by values, resolved against a fixed user list
UsedByUsers ==
    PyList(<<UserBob, UserAl, Rec2(s_id, v_seven, s_username, v_sv), Rec1(s_id, PyInt(4))>>)
UsedByValues ==
    { PyInt(1), PyInt(2), PyInt(9), PyInt(0), PyNone, PyBool(TRUE), PyBool(FALSE),
      v_User2, v_User9, v_Userx, v_UserNone, v_UserSp, v_UserPlus, v_UserGG, v_UserNested,
      v_UserOpen, v_bob, v_two, v_seven,
      Rec1(s_id, PyInt(1)), Rec1(s_id, PyInt(9)), Rec1(s_id, v_seven), PyDict(<<>>),
      Rec1(s_name, v_bob), Rec1(s_id, PyList(<<PyInt(1)>>)), PyList(<<PyInt(1)>>) }
UsedByInvitations ==
    {Rec1(s_id, PyInt(10))} \cup {Rec2(s_id, PyInt(10), s_used_by, u) : u \in UsedByValues}
\* the records that may follow the first one
UsedByFollowers ==
    {Rec1(s_id, PyInt(11)), Rec2(s_id, PyInt(11), s_used_by, PyInt(2)),
     Rec2(s_id, PyInt(11), s_used_by, v_Userx)}
UsedByLists ==
    { L \in SeqsUpTo(UsedByInvitations \cup UsedByFollowers, MaxInvitations) :
        /\ L # <<>>
        /\ L[1] \in UsedByInvitations
        /\ \A i \in 2..Len(L) : L[i] \in UsedByFollowers }
UsedByScenarios ==
    { [kind |-> "used_by", invitations |-> L,
       data |-> Snapshot(StatusPayload, UsedByUsers, PyList(L), DefaultLibraries,
                         DefaultServers, DefaultKeys)] :
      L \in UsedByLists }

\* --- specific_libraries values, resolved against a fixed library list
RefLibraries ==
    PyList(<<LibraryMovies, Rec2(s_id, PyInt(6), s_title, v_Shows), Rec1(s_id, PyInt(7)),
             Rec2(s_id, PyInt(8), s_name, PyNone), Rec2(s_id, PyInt(1), s_name, v_N)>>)
LibraryRefs ==
    { PyInt(5), PyInt(6), PyInt(7), PyInt(8), PyInt(99), PyBool(TRUE), PyNone, v_five,
      Rec1(s_id, PyInt(5)), Rec1(s_id, PyInt(99)), Rec2(s_id, PyInt(99), s_name, v_N),
      Rec2(s_id, PyInt(99), s_name, PyNone), Rec1(s_name, v_q),
      Rec1(s_id, PyList(<<PyInt(5)>>)) }
SpecificLibraries ==
    {PyList(L) : L \in SeqsUpTo(LibraryRefs, MaxLibraryRefs)} \cup {PyNone, v_ab, PyDict(<<>>)}
LibraryScenarios ==
    { [kind |-> "libraries", specific_libraries |-> sl,
       data |-> Snapshot(StatusPayload, DefaultUsers,
                         PyList(<<Rec2(s_id, PyInt(10), s_specific_libraries, sl)>>),
                         RefLibraries, DefaultServers, DefaultKeys)] :
      sl \in SpecificLibraries }

\* --- records with and without the grouping field of their sensor's histogram
HistogramEndpoints == {s_users, s_invitations, s_libraries, s_servers}
GroupRecords(endpoint) ==
    { Rec1(group_field(endpoint), v_plex), Rec1(group_field(endpoint), v_pending),
      PyDict(<<>>), Rec2(s_id, PyInt(1), group_field(endpoint), PyNone) }
HistogramScenarios ==
    UNION { { [kind |-> "histogram", endpoint |-> e, L |-> L, shape |-> sh,
               data |-> SnapshotWith(e, ShapePayload(e, L, sh))] :
              L \in SeqsUpTo(GroupRecords(e), MaxRecords) \ {<<>>}, sh \in Shapes } :
            e \in HistogramEndpoints }

\* --- record lists with elements that are not mappings, and records with
\* mistyped fields, next to a well-formed record
GoodRecord(endpoint) ==
    PyDict(<<<<s_id, PyInt(3)>>, <<s_username, v_zed>>, <<s_name, v_Shows>>,
             <<group_field(IF endpoint = s_api_keys THEN s_users ELSE endpoint), v_plex>>>>)
MalformedRecords ==
    { PyInt(5), v_ab, PyNone, PyList(<<PyInt(1)>>),
      Rec1(s_id, PyList(<<PyInt(1)>>)), Rec1(s_id, PyDict(<<>>)),
      Rec2(s_id, PyInt(4), s_server_type, PyList(<<v_plex>>)),
      Rec3(s_id, PyInt(4), s_username, PyInt(5), s_name, PyInt(5)),
      Rec3(s_id, PyInt(4), s_used_by, PyList(<<>>), s_specific_libraries, PyInt(5)) }
MalformedScenarios ==
    UNION { { [kind |-> "malformed", endpoint |-> e, bad |-> r, L |-> L,
               data |-> SnapshotWith(e, PyList(L))] :
              L \in {<<r>>, <<r, GoodRecord(e)>>, <<GoodRecord(e), r>>} } :
            e \in ListEndpoints, r \in MalformedRecords }

\* --- mappings with several list-valued fields, in every field order
v_results == PyStr(<<"r", "e", "s", "u", "l", "t", "s">>)
MaxFields == 3
PreferKeys(endpoint) == {s_data, endpoint, s_count, v_items, v_results, s_total}
\* the one record of the list under key k, which carries k as its name
PreferRecord(endpoint, k) ==
    IF endpoint = s_invitations
    THEN Rec3(s_id, PyInt(10), s_name, k, s_used_by, PyInt(1))
    ELSE Rec3(s_id, PyInt(IF endpoint = s_users THEN 2 ELSE 5), s_username, k, s_name, k)
PreferValue(endpoint, k) ==
    IF k = s_total THEN PyInt(1) ELSE PyList(<<PreferRecord(endpoint, k)>>)
PreferPayloads(endpoint) ==
    { PyDict([i \in 1..Len(ks) |-> <<ks[i], PreferValue(endpoint, ks[i])>>]) :
      ks \in { q \in SeqsUpTo(PreferKeys(endpoint), MaxFields) \ {<<>>} :
                 \A i, j \in 1..Len(q) : i # j => q[i] # q[j] } }
PreferScenarios ==
    UNION { { [kind |-> "prefer", endpoint |-> e, payload |-> p, data |-> SnapshotWith(e, p)] :
              p \in PreferPayloads(e) } : e \in {s_users, s_invitations, s_libraries} }

\* --- one library record with and without name, title and server_name, referenced
\* by the one invitation
LabelNames == {Absent, v_Movies, PyNone}
LabelTitles == {Absent, v_Shows, PyNone}
LabelServerNames == {Absent, PyStr(<<>>), s_Unknown, v_ServerA}
OptionalField(k, v) == IF v = Absent THEN <<>> ELSE <<<<k, v>>>>
LabelRecords ==
    { PyDict(<<<<s_id, PyInt(5)>>>> \o OptionalField(s_name, n) \o OptionalField(s_title, t)
             \o OptionalField(s_server_name, sn)) :
      n \in LabelNames, t \in LabelTitles, sn \in LabelServerNames }
LabelScenarios ==
    { [kind |-> "label", library |-> r,
       data |-> Snapshot(StatusPayload, DefaultUsers,
                         PyList(<<Rec2(s_id, PyInt(10), s_specific_libraries,
                                       PyList(<<PyInt(5)>>))>>),
                         PyList(<<r>>), DefaultServers, DefaultKeys)] :
      r \in LabelRecords }

Scenarios ==
    LabelScenarios \cup ShapeScenarios \cup EmptyScenarios \cup MismatchScenarios \cup UserScenarios
    \cup UsedByScenarios \cup LibraryScenarios \cup HistogramScenarios
    \cup MalformedScenarios \cup PreferScenarios

(***************************************************************************)
(* The sensor properties, read on a published Snapshot                     *)
(***************************************************************************)
\* the read's outcome is handed to Home Assistant, and coordinator.data is as
\* the call left it
attributes_read(sensor_type, r) ==
    /\ last' = [op |-> "extra_state_attributes", sensor |-> sensor_type,
                exc |-> r.exc, val |-> r.val]
    /\ data' = r.cdata

\* Home Assistant reads extra_state_attributes of the sensor of type sensor_type
ExtraStateAttributes(sensor_type) ==
    /\ pc = "idle"
    /\ attributes_read(sensor_type, extra_state_attributes(sensor_type, data))
    /\ UNCHANGED <<last_update_success, pc, results, scenario, svc, wizarr, hass>>

\* a Snapshot published by a refresh whose sub-fetches returned the scenario's payloads
InitSensor ==
    /\ scenario \in Scenarios
    /\ data = scenario.data
    /\ last_update_success = TRUE
    /\ pc = "idle"
    /\ results = [i \in 1..Len(tasks) |-> Ret(DictGet(scenario.data, tasks[i], PyNone))]
    /\ last = NoSensorCall
    /\ svc = NoCall
    /\ wizarr = 0
    /\ hass = NoHass

\* Home Assistant reads native_value (the state) of the sensor of type sensor_type
NativeValue(sensor_type) ==
    /\ pc = "idle"
    /\ last' = [op |-> "native_value", sensor |-> sensor_type, exc |-> "none",
                val |-> native_value(sensor_type, data)]
    /\ UNCHANGED <<data, last_update_success, pc, results, scenario, svc, wizarr, hass>>

NextSensor ==
    \/ \E sensor_type \in SENSOR_TYPES : ExtraStateAttributes(sensor_type)
    \/ \E sensor_type \in SENSOR_TYPES : NativeValue(sensor_type)

SpecSensor == InitSensor /\ [][NextSensor]_vars

(***************************************************************************)
(* Sensor reads between refresh cycles in which endpoints come and go      *)
(***************************************************************************)
HealthySnapshot ==
    Snapshot(StatusPayload, DefaultUsers, DefaultInvitations, DefaultLibraries,
             DefaultServers, DefaultKeys)

\* the endpoints that are unreachable in some cycles
OutageEndpoints == {s_status, s_users, s_invitations, s_libraries}

\* the answers drawn for the sub-fetch of task i: its payload, or no answer
OutageResponses(i) ==
    {HttpResponse(200, DictGet(HealthySnapshot, tasks[i], PyNone))}
    \cup (IF tasks[i] \in OutageEndpoints THEN {NetworkFailure} ELSE {})

NextOutage ==
    \/ StartRefresh
    \/ \E i \in 1..Len(tasks) : \E resp \in OutageResponses(i) : CompleteFetch(i, resp)
    \/ FinishRefresh
    \/ \E sensor_type \in SENSOR_TYPES : ExtraStateAttributes(sensor_type)
    \/ \E sensor_type \in SENSOR_TYPES : NativeValue(sensor_type)

SpecOutage == Init /\ [][NextOutage]_vars

(***************************************************************************)
(* One transport request, over the answers a server can give               *)
(***************************************************************************)
RequestStatuses == {200, 201, 202, 204, 304, 400, 401, 403, 404, 500, 503}
RequestBodies == {PyNone, PyDict(<<>>), PyInt(0), v_ab, StatusPayload, DefaultUsers}
RequestScenarios ==
    {[kind |-> "request", resp |-> NetworkFailure]}
    \cup { [kind |-> "request", resp |-> HttpResponse(st, body)] :
             st \in RequestStatuses, body \in RequestBodies }

\* the client sends one request and the server's answer arrives
Request ==
    /\ scenario.kind = "request"
    /\ last.op = "none"
    /\ last' = [op |-> "request", sensor |-> PyNone,
                exc |-> request(scenario.resp).exc, val |-> request(scenario.resp).val]
    /\ UNCHANGED <<data, last_update_success, pc, results, scenario, svc, wizarr, hass>>

InitRequest ==
    /\ scenario \in RequestScenarios
    /\ data = PyNone
    /\ last_update_success = FALSE
    /\ pc = "idle"
    /\ results = [i \in 1..Len(tasks) |-> Pending]
    /\ last = NoSensorCall
    /\ svc = NoCall
    /\ wizarr = 0
    /\ hass = NoHass

NextRequest == Request

SpecRequest == InitRequest /\ [][NextRequest]_vars

(***************************************************************************)
(* Services (__init__.py): create_invitation and send_invitation_email     *)
(***************************************************************************)
s_server_ids == PyStr(<<"s", "e", "r", "v", "e", "r", "_", "i", "d", "s">>)
s_expires_in_days == PyStr(<<"e", "x", "p", "i", "r", "e", "s", "_", "i", "n", "_", "d", "a", "y", "s">>)
s_duration == PyStr(<<"d", "u", "r", "a", "t", "i", "o", "n">>)
s_unlimited == PyStr(<<"u", "n", "l", "i", "m", "i", "t", "e", "d">>)
s_library_ids == PyStr(<<"l", "i", "b", "r", "a", "r", "y", "_", "i", "d", "s">>)
s_allow_downloads == PyStr(<<"a", "l", "l", "o", "w", "_", "d", "o", "w", "n", "l", "o", "a", "d", "s">>)
s_allow_live_tv == PyStr(<<"a", "l", "l", "o", "w", "_", "l", "i", "v", "e", "_", "t", "v">>)
s_allow_mobile_uploads == PyStr(<<"a", "l", "l", "o", "w", "_", "m", "o", "b", "i", "l", "e", "_", "u", "p", "l", "o", "a", "d", "s">>)
s_recipient_email == PyStr(<<"r", "e", "c", "i", "p", "i", "e", "n", "t", "_", "e", "m", "a", "i", "l">>)
s_public_url == PyStr(<<"p", "u", "b", "l", "i", "c", "_", "u", "r", "l">>)
s_invitation == PyStr(<<"i", "n", "v", "i", "t", "a", "t", "i", "o", "n">>)
s_url == PyStr(<<"u", "r", "l">>)
s_code == PyStr(<<"c", "o", "d", "e">>)
s_invitation_id == PyStr(<<"i", "n", "v", "i", "t", "a", "t", "i", "o", "n", "_", "i", "d">>)
s_invitation_url == PyStr(<<"i", "n", "v", "i", "t", "a", "t", "i", "o", "n", "_", "u", "r", "l">>)
s_invitation_code == PyStr(<<"i", "n", "v", "i", "t", "a", "t", "i", "o", "n", "_", "c", "o", "d", "e">>)
s_recipient == PyStr(<<"r", "e", "c", "i", "p", "i", "e", "n", "t">>)
s_our_media == PyStr(<<"o", "u", "r", " ", "m", "e", "d", "i", "a">>)
s_server == PyStr(<<"s", "e", "r", "v", "e", "r">>)

\* s.split(","): the pieces between the commas, at least one piece
RECURSIVE split_comma(_, _)
split_comma(s, piece) ==
    IF s = <<>> THEN <<piece>>
    ELSE IF s[1] = "," THEN <<piece>> \o split_comma(Tail(s), <<>>)
    ELSE split_comma(Tail(s), Append(piece, s[1]))

\* characters that str.isdigit accepts and int() rejects: the superscript digits
SuperscriptDigits == {"²", "³"}

\* s.isdigit(): not empty, and every character has the Unicode digit property
isdigit(s) == s # <<>> /\ \A i \in 1..Len(s) : IsDigit(s[i]) \/ s[i] \in SuperscriptDigits

\* [int(id.strip()) for id in pieces if id.strip().isdigit()], from piece i on:
\* int() of a piece raises ValueError where it cannot read the digits
RECURSIVE parse_ids(_, _, _)
parse_ids(pieces, i, ids) ==
    IF i > Len(pieces) THEN Ret(PyList(ids))
    ELSE IF ~isdigit(strip(pieces[i])) THEN parse_ids(pieces, i + 1, ids)
    ELSE With(int_of(strip(pieces[i])), LAMBDA r :
         IF ~r.ok THEN Raise("ValueError")
         ELSE parse_ids(pieces, i + 1, Append(ids, PyInt(r.n))))

\* if key in call.data: invitation_data[key] = call.data[key]
copy_optional(invitation_data, call_data, key) ==
    IF DictHas(call_data, key)
    THEN DictSet(invitation_data, key, DictGet(call_data, key, PyNone))
    ELSE invitation_data

\* a slip of the duration branch: unlimited is set whatever the duration
with_duration_always_unlimited(invitation_data, call_data) ==
    DictSet(copy_optional(invitation_data, call_data, s_duration),
            s_unlimited, PyBool(TRUE))

\* the duration of the call when it has a non-empty one, otherwise unlimited
with_duration(invitation_data, call_data) ==
    IF DictHas(call_data, s_duration) /\ Truthy(DictGet(call_data, s_duration, PyNone))
    THEN DictSet(invitation_data, s_duration, DictGet(call_data, s_duration, PyNone))
    ELSE DictSet(invitation_data, s_unlimited, PyBool(TRUE))

\* library_ids of the call, parsed like server_ids, added when any id is left
with_library_ids(invitation_data, call_data) ==
    IF DictHas(call_data, s_library_ids) /\ Truthy(DictGet(call_data, s_library_ids, PyNone))
    THEN Try(parse_ids(split_comma(DictGet(call_data, s_library_ids, PyNone).s, <<>>),
                       1, <<>>),
             LAMBDA library_ids :
             Ret(IF Truthy(library_ids)
                 THEN DictSet(invitation_data, s_library_ids, library_ids)
                 ELSE invitation_data))
    ELSE Ret(invitation_data)

\* the request body both services build from the call, server_ids being parsed
build_invitation_data(call_data, server_ids) ==
    Try(with_library_ids(
            with_duration(
                copy_optional(PyDict(<<<<s_server_ids, server_ids>>>>),
                              call_data, s_expires_in_days),
                call_data),
            call_data),
        LAMBDA d :
        Ret(copy_optional(copy_optional(copy_optional(d, call_data, s_allow_downloads),
                                        call_data, s_allow_live_tv),
                          call_data, s_allow_mobile_uploads)))


LowerLetters ==
    <<"a", "b", "c", "d", "e", "f", "g", "h", "i", "j", "k", "l", "m",
      "n", "o", "p", "q", "r", "s", "t", "u", "v", "w", "x", "y", "z">>
UpperLetters ==
    <<"A", "B", "C", "D", "E", "F", "G", "H", "I", "J", "K", "L", "M",
      "N", "O", "P", "Q", "R", "S", "T", "U", "V", "W", "X", "Y", "Z">>
Letters == {LowerLetters[i] : i \in 1..26} \cup {UpperLetters[i] : i \in 1..26}

\* the character classes of email_pattern
EmailLocalChars ==
    Letters \cup {DigitChars[i] : i \in 1..10} \cup {".", "_", "%", "+", "-"}
EmailDomainChars == Letters \cup {DigitChars[i] : i \in 1..10} \cup {".", "-"}

\* the pattern from ^ up to $, matched against all of t:
\* [a-zA-Z0-9._%+-]+ @ [a-zA-Z0-9.-]+ \. [a-zA-Z]{2,}
email_pattern_spans(t) ==
    \E i \in 2..Len(t) : \E j \in (i + 2)..(Len(t) - 2) :
        /\ t[i] = "@" /\ t[j] = "."
        /\ \A k \in 1..(i - 1) : t[k] \in EmailLocalChars
        /\ \A k \in (i + 1)..(j - 1) : t[k] \in EmailDomainChars
        /\ \A k \in (j + 1)..Len(t) : t[k] \in Letters

\* re.match(email_pattern, s): $ matches at the end of s, and also just before a
\* newline that is the last character of s
re_match_email(s) ==
    \/ email_pattern_spans(s)
    \/ s # <<>> /\ s[Len(s)] = "\n" /\ email_pattern_spans(SubSeq(s, 1, Len(s) - 1))

\* s.title(): a letter that follows a letter is lowercased, any other letter is
\* uppercased
LetterIndex(c) ==
    FirstIndex({i \in 1..26 : LowerLetters[i] = c \/ UpperLetters[i] = c})
title(s) ==
    [i \in 1..Len(s) |->
        IF LetterIndex(s[i]) = 0 THEN s[i]
        ELSE IF i > 1 /\ LetterIndex(s[i - 1]) # 0 THEN LowerLetters[LetterIndex(s[i])]
        ELSE UpperLetters[LetterIndex(s[i])]]

\* what a service call does that others can see: a request sent, an SMTP send
\* handed to the executor, an event fired on the bus, a log record
Effect(kind, name, payload) == [kind |-> kind, name |-> name, data |-> payload]
LogError == Effect("log", "error", PyNone)
LogInfo == Effect("log", "info", PyNone)
LogWarning == Effect("log", "warning", PyNone)

\* the handler ends: by return, or by an exception that leaves it
returned(c, effects) == [c EXCEPT !.pc = "done", !.trace = c.trace \o effects]
raised_to_caller(c, exc) == [c EXCEPT !.pc = "done", !.raised = exc]

\* both services from the parsing of server_ids to the await of
\* client.create_invitation(invitation_data); nothing of it is inside a try
create_requested(c) ==
    With(parse_ids(split_comma(DictGet(c.call, s_server_ids, PyNone).s, <<>>), 1, <<>>),
         LAMBDA ids :
    IF ids.exc # "none" THEN raised_to_caller(c, ids.exc)
    ELSE IF ~Truthy(ids.val) THEN returned(c, <<LogError>>)
    ELSE With(build_invitation_data(c.call, ids.val), LAMBDA d :
         IF d.exc # "none" THEN raised_to_caller(c, d.exc)
         ELSE [c EXCEPT !.pc = "create", !.invitation_data = d.val,
                        !.trace = c.trace \o <<Effect("request", "POST /invitations", d.val)>>]))

\* send_invitation_email_service validates the recipient first
email_validated(c) ==
    IF ~re_match_email(DictGet(c.call, s_recipient_email, PyNone).s)
    THEN returned(c, <<LogError>>)
    ELSE create_requested(c)


\* the fields of the wizarr_invitation_created event, read from src
event_data(src, result) ==
    PyDict(<<<<s_invitation_id, DictGet(src, s_id, PyNone)>>,
             <<s_invitation_url, DictGet(src, s_url, PyNone)>>,
             <<s_invitation_code, DictGet(src, s_code, PyNone)>>,
             <<s_data, result>>>>)

\* "Handle different possible response structures" of create_invitation_service:
\* the three fields come from result["invitation"] when that is truthy (.get on a
\* value that is no dict raises AttributeError), else from the root of a dict
\* result, and stay None for any other result
created_event_data(result) ==
    IF Truthy(result) /\ isinstance_dict(result)
    THEN With(DictGet(result, s_invitation, PyNone), LAMBDA invitation :
         IF ~Truthy(invitation) THEN Ret(event_data(result, result))
         ELSE IF ~isinstance_dict(invitation) THEN Raise("AttributeError")
         ELSE Ret(event_data(invitation, result)))
    ELSE Ret(event_data(PyDict(<<>>), result))

\* create_invitation_service from the return of the await to its end, r being
\* what client.create_invitation returned or raised
create_invitation_answered(c, r) ==
    IF r.exc # "none" THEN returned(c, <<LogError>>)
    ELSE With(created_event_data(r.val), LAMBDA e :
         IF e.exc # "none" THEN returned(c, <<LogInfo, LogError>>)
         ELSE returned(c, <<LogInfo, Effect("event", "wizarr_invitation_created", e.val)>>))

\* the same lines of send_invitation_email_service: invitation and invitation_url
invitation_of(result) ==
    IF Truthy(result) /\ isinstance_dict(result)
    THEN With(DictGet(result, s_invitation, PyNone), LAMBDA invitation :
         IF ~Truthy(invitation)
         THEN Ret([invitation |-> result, url |-> DictGet(result, s_url, PyNone)])
         ELSE IF ~isinstance_dict(invitation) THEN Raise("AttributeError")
         ELSE Ret([invitation |-> invitation, url |-> DictGet(invitation, s_url, PyNone)]))
    ELSE Ret([invitation |-> PyNone, url |-> PyNone])

\* send_invitation_email_service from the return of the create await to the await
\* of client.get_servers() (the call carries no public_url)
email_create_answered(c, r) ==
    IF r.exc # "none" THEN returned(c, <<LogError>>)
    ELSE With(invitation_of(r.val), LAMBDA f :
         IF f.exc # "none" THEN returned(c, <<LogInfo, LogError>>)
         ELSE IF ~Truthy(f.val.url) THEN returned(c, <<LogInfo, LogError>>)
         ELSE [c EXCEPT !.pc = "servers", !.invitation = f.val.invitation,
                        !.invitation_url = f.val.url,
                        !.trace = c.trace \o <<LogInfo, Effect("request", "GET /servers", PyNone)>>])

\* server_name and server_type as the try block around get_servers leaves them,
\* and the exception its except clause caught
ServerDetails(server_name, server_type, exc) ==
    [server_name |-> server_name, server_type |-> server_type, exc |-> exc]

\* x in ids
contains(ids, x) == \E i \in 1..Len(ids) : PyEq(ids[i], x)

\* the loop over servers_list, from item i on: the first server whose id is in
\* server_ids gives the names
RECURSIVE find_server(_, _, _)
find_server(items, i, server_ids) ==
    IF i > Len(items) THEN ServerDetails(s_our_media, s_server, "none")
    ELSE IF ~isinstance_dict(items[i])
    THEN ServerDetails(s_our_media, s_server, "AttributeError")
    ELSE IF ~contains(server_ids, DictGet(items[i], s_id, PyNone))
    THEN find_server(items, i + 1, server_ids)
    ELSE With(DictGet(items[i], s_server_type, s_server), LAMBDA server_type :
         IF ~isinstance_str(server_type)
         THEN ServerDetails(DictGet(items[i], s_name, s_our_media), s_server,
                            "AttributeError")
         ELSE ServerDetails(DictGet(items[i], s_name, s_our_media),
                            PyStr(title(server_type.s)), "none"))

\* "Fetch server details for personalized message", r being what get_servers
\* returned or raised
server_details(r, server_ids) ==
    IF r.exc # "none" THEN ServerDetails(s_our_media, s_server, r.exc)
    ELSE IF Truthy(r.val) /\ isinstance_dict(r.val)
    THEN With(iter_of(DictGet(r.val, s_servers, PyList(<<>>))), LAMBDA servers_list :
         IF servers_list.exc # "none"
         THEN ServerDetails(s_our_media, s_server, servers_list.exc)
         ELSE find_server(servers_list.val, 1, server_ids))
    ELSE ServerDetails(s_our_media, s_server, "none")

\* what the composed message carries
message(c, details) ==
    PyDict(<<<<s_recipient, DictGet(c.call, s_recipient_email, PyNone)>>,
             <<s_server_name, details.server_name>>,
             <<s_server_type, details.server_type>>,
             <<s_invitation_url, c.invitation_url>>>>)

\* send_invitation_email_service from the return of the servers await to the
\* await of the executor job that sends the message
servers_answered(c, details) ==
    [c EXCEPT !.pc = "smtp",
              !.trace = c.trace \o (IF details.exc # "none" THEN <<LogWarning>> ELSE <<>>)
                        \o <<Effect("smtp", "send_message", message(c, details))>>]

\* a slip of the handler: the event is fired whether or not the send raised
smtp_completed_event_always(c, sent) ==
    returned(c, <<IF sent THEN LogInfo ELSE LogError,
            Effect("event", "wizarr_invitation_email_sent",
                   PyDict(<<<<s_recipient, DictGet(c.call, s_recipient_email, PyNone)>>,
                            <<s_invitation_id,
                              IF Truthy(c.invitation)
                              THEN DictGet(c.invitation, s_id, PyNone) ELSE PyNone>>,
                            <<s_invitation_url, c.invitation_url>>>>))>>)

\* send_invitation_email_service from the end of the executor job to its end
smtp_completed(c, sent) ==
    IF ~sent THEN returned(c, <<LogError>>)
    ELSE returned(c, <<LogInfo,
            Effect("event", "wizarr_invitation_email_sent",
                   PyDict(<<<<s_recipient, DictGet(c.call, s_recipient_email, PyNone)>>,
                            <<s_invitation_id,
                              IF Truthy(c.invitation)
                              THEN DictGet(c.invitation, s_id, PyNone) ELSE PyNone>>,
                            <<s_invitation_url, c.invitation_url>>>>))>>)


\* the most invitations the server creates in one behaviour
MaxCreated == 2

\* the server creates the invitation when it answers the POST with 200 or 201
Creates(resp) == resp.net = "ok" /\ resp.status \in {200, 201}

\* Home Assistant calls create_invitation with the validated call data; the handler
\* runs up to its first await or to its end
CreateInvitationService(call_data) ==
    /\ svc.pc = "none"
    /\ wizarr < MaxCreated
    /\ svc' = create_requested([NoCall EXCEPT !.name = "create_invitation",
                                              !.call = call_data])
    /\ UNCHANGED <<data, last_update_success, pc, results, last, scenario, wizarr, hass>>

\* Home Assistant calls send_invitation_email (calls that carry no public_url)
SendInvitationEmailService(call_data) ==
    /\ svc.pc = "none"
    /\ wizarr < MaxCreated
    /\ ~DictHas(call_data, s_public_url)
    /\ svc' = email_validated([NoCall EXCEPT !.name = "send_invitation_email",
                                             !.call = call_data])
    /\ UNCHANGED <<data, last_update_success, pc, results, last, scenario, wizarr, hass>>

\* a slip of the handler: it puts the server's answer into coordinator.data
CreateInvitationResponds_storing(resp) ==
    /\ svc.name = "create_invitation" /\ svc.pc = "create"
    /\ svc' = create_invitation_answered(svc, request(resp))
    /\ wizarr' = IF Creates(resp) THEN wizarr + 1 ELSE wizarr
    /\ data' = IF data = PyNone \/ ~Creates(resp) THEN data
               ELSE DictSet(data, s_invitations, PyList(<<resp.body>>))
    /\ UNCHANGED <<last_update_success, pc, results, last, scenario, hass>>

\* the answer to the POST of create_invitation_service arrives
CreateInvitationResponds(resp) ==
    /\ svc.name = "create_invitation" /\ svc.pc = "create"
    /\ svc' = create_invitation_answered(svc, request(resp))
    /\ wizarr' = IF Creates(resp) THEN wizarr + 1 ELSE wizarr
    /\ UNCHANGED <<data, last_update_success, pc, results, last, scenario, hass>>

\* the answer to the POST of send_invitation_email_service arrives
EmailCreateResponds(resp) ==
    /\ svc.name = "send_invitation_email" /\ svc.pc = "create"
    /\ svc' = email_create_answered(svc, request(resp))
    /\ wizarr' = IF Creates(resp) THEN wizarr + 1 ELSE wizarr
    /\ UNCHANGED <<data, last_update_success, pc, results, last, scenario, hass>>

\* the answer to GET /servers arrives
ServersResponds(resp) ==
    /\ svc.name = "send_invitation_email" /\ svc.pc = "servers"
    /\ svc' = servers_answered(svc,
                  server_details(request(resp),
                                 DictGet(svc.invitation_data, s_server_ids, PyNone).l))
    /\ UNCHANGED <<data, last_update_success, pc, results, last, scenario, wizarr, hass>>

\* the executor job send_email ends: the message was sent, or smtplib raised
SmtpCompletes(sent) ==
    /\ svc.name = "send_invitation_email" /\ svc.pc = "smtp"
    /\ svc' = smtp_completed(svc, sent)
    /\ UNCHANGED <<data, last_update_success, pc, results, last, scenario, wizarr, hass>>

\* the service call is over: its caller has the return or the exception
ServiceReturns ==
    /\ svc.pc = "done"
    /\ svc' = NoCall
    /\ UNCHANGED <<data, last_update_success, pc, results, last, scenario, wizarr, hass>>

\* --- the calls and the answers drawn
v_one == PyStr(<<"1">>)
v_zero == PyStr(<<"0">>)
v_x == PyStr(<<"x">>)
v_minus_one == PyStr(<<"-", "1">>)
v_superscript == PyStr(<<"²">>)
v_one_two == PyStr(<<"1", ",", " ", "2">>)
v_padded == PyStr(<<" ", "3", " ", ",", "x", ",", ",", "2">>)
v_7d == PyStr(<<"7", "d">>)
v_not_an_email == PyStr(<<"n", "o", "t", "-", "a", "n", "-", "e", "m", "a", "i", "l">>)
v_bob_mail_newline == PyStr(<<"b", "@", "x", ".", "c", "o", "m", "\n">>)
v_short_tld == PyStr(<<"a", "@", "b", ".", "c">>)
v_no_local == PyStr(<<"@", "x", ".", "c", "o", "m">>)
v_spaced == PyStr(<<"b", "@", "x", ".", "c", "o", "m", " ">>)
v_url == PyStr(<<"h", "t", "t", "p", ":", "/", "/", "w", "/", "j", "/", "A">>)
v_plex_server == PyStr(<<"p", "l", "e", "x", " ", "s", "E", "R", "V", "E", "R">>)

ServerIdStrings ==
    {v_one, v_one_two, v_padded, v_zero, PyStr(<<>>), v_x, v_minus_one, v_superscript}
Durations == {Absent, PyStr(<<>>), v_7d}
LibraryIdStrings == {Absent, v_five, v_x}

\* the call data with the optional fields that are not Absent
RECURSIVE CallData(_, _)
CallData(pairs, i) ==
    IF i > Len(pairs) THEN <<>>
    ELSE (IF pairs[i][2] = Absent THEN <<>> ELSE <<pairs[i]>>) \o CallData(pairs, i + 1)

CreateCalls ==
    { PyDict(CallData(<<<<s_server_ids, ids>>, <<s_duration, duration>>,
                        <<s_library_ids, libs>>, <<s_expires_in_days, extras[1]>>,
                        <<s_allow_downloads, extras[2]>>>>, 1)) :
      ids \in ServerIdStrings, duration \in Durations, libs \in LibraryIdStrings,
      extras \in {<<Absent, Absent>>, <<PyInt(7), PyBool(TRUE)>>} }

Recipients ==
    {v_bob_mail, v_bob_mail_newline, v_not_an_email, v_short_tld, v_no_local, v_spaced,
     PyStr(<<>>)}
EmailCalls ==
    { PyDict(<<<<s_recipient_email, recipient>>>> \o call.d) :
      recipient \in Recipients, call \in CreateCalls }

InvitationFields == Rec3(s_id, PyInt(7), s_url, v_url, s_code, v_q)
CreateBodies ==
    { Rec1(s_invitation, InvitationFields), InvitationFields,
      Rec1(s_invitation, Rec1(s_id, PyInt(7))), Rec1(s_id, PyInt(7)),
      Rec2(s_invitation, PyNone, s_url, v_url),
      Rec2(s_invitation, Rec1(s_code, v_q), s_id, PyInt(7)),
      Rec1(s_invitation, v_ab), Rec1(s_invitation, PyList(<<InvitationFields>>)),
      PyDict(<<>>), PyList(<<InvitationFields>>), PyNone, v_url }
CreateResponses ==
    {NetworkFailure, HttpResponse(401, PyNone), HttpResponse(500, PyNone),
     HttpResponse(204, PyNone)}
    \cup {HttpResponse(201, body) : body \in CreateBodies}

ServersBodies ==
    { Rec1(s_servers, PyList(<<Rec3(s_id, PyInt(1), s_name, v_ServerA,
                                    s_server_type, v_plex_server)>>)),
      Rec1(s_servers, PyList(<<Rec2(s_id, PyInt(9), s_name, v_N),
                               Rec2(s_id, PyInt(2), s_name, v_ServerA)>>)),
      Rec1(s_servers, PyList(<<Rec1(s_id, PyBool(TRUE))>>)),
      Rec1(s_servers, PyList(<<Rec3(s_id, PyInt(1), s_name, v_ServerA,
                                    s_server_type, PyInt(5))>>)),
      Rec1(s_servers, PyList(<<PyInt(5)>>)), Rec1(s_servers, PyNone),
      PyList(<<Rec2(s_id, PyInt(1), s_name, v_ServerA)>>), PyNone }
ServersResponses ==
    {NetworkFailure, HttpResponse(500, PyNone)}
    \cup {HttpResponse(200, body) : body \in ServersBodies}

NextService ==
    \/ \E call_data \in CreateCalls : CreateInvitationService(call_data)
    \/ \E call_data \in EmailCalls : SendInvitationEmailService(call_data)
    \/ \E resp \in CreateResponses : CreateInvitationResponds(resp)
    \/ \E resp \in CreateResponses : EmailCreateResponds(resp)
    \/ \E resp \in ServersResponses : ServersResponds(resp)
    \/ \E sent \in BOOLEAN : SmtpCompletes(sent)
    \/ ServiceReturns

SpecService == Init /\ [][NextService]_vars


(***************************************************************************)
(* Service calls running while refresh cycles come and go                  *)
(***************************************************************************)
\* GET /invitations of a server that has created n invitations
CreatedInvitations(n) == PyList([k \in 1..n |-> Rec1(s_id, PyInt(k))])

\* the answers drawn for the sub-fetch of task i: the server's payload, and for
\* the invitations also no answer
LiveResponses(i) ==
    IF tasks[i] = s_invitations
    THEN {NetworkFailure, HttpResponse(200, CreatedInvitations(wizarr))}
    ELSE {HttpResponse(200, DictGet(HealthySnapshot, tasks[i], PyNone))}

LiveCreateCalls == {PyDict(<<<<s_server_ids, v_one>>>>)}
LiveEmailCalls ==
    { PyDict(<<<<s_recipient_email, recipient>>, <<s_server_ids, v_one>>>>) :
      recipient \in {v_bob_mail, v_not_an_email} }
LiveCreateResponses ==
    {NetworkFailure, HttpResponse(201, Rec1(s_invitation, InvitationFields)),
     HttpResponse(201, Rec1(s_id, PyInt(7)))}
LiveServersResponses ==
    {NetworkFailure, HttpResponse(200, Rec1(s_servers, DefaultServers))}

NextLive ==
    \/ StartRefresh
    \/ \E i \in 1..Len(tasks) : \E resp \in LiveResponses(i) : CompleteFetch(i, resp)
    \/ FinishRefresh
    \/ \E call_data \in LiveCreateCalls : CreateInvitationService(call_data)
    \/ \E call_data \in LiveEmailCalls : SendInvitationEmailService(call_data)
    \/ \E resp \in LiveCreateResponses : CreateInvitationResponds(resp)
    \/ \E resp \in LiveCreateResponses : EmailCreateResponds(resp)
    \/ \E resp \in LiveServersResponses : ServersResponds(resp)
    \/ \E sent \in BOOLEAN : SmtpCompletes(sent)
    \/ ServiceReturns

SpecLive == Init /\ [][NextLive]_vars

(***************************************************************************)
(* Config entries: async_setup_entry and async_unload_entry (__init__.py)  *)
(***************************************************************************)
\* the names under which the two handlers are registered
ServiceNames == {"create_invitation", "send_invitation_email"}

\* hass.services.async_register twice: both names now run the handlers defined in
\* this call of async_setup_entry, which close over its client
register_services(h, client) ==
    [h EXCEPT !.create_invitation = client, !.send_invitation_email = client]

\* a slip of the unload: the services are removed with every unloaded entry
remove_services_always(h) ==
    [h EXCEPT !.create_invitation = 0, !.send_invitation_email = 0]

\* "Remove services if no more entries"
remove_services(h) ==
    IF h.data = {} THEN [h EXCEPT !.create_invitation = 0, !.send_invitation_email = 0]
    ELSE h

\* async_setup_entry up to its first await: the client and the coordinator of the
\* entry are made and the first refresh is under way
SetupStarts(entry) ==
    /\ hass.entries[entry] = "not_loaded"
    /\ hass' = [hass EXCEPT !.entries[entry] = "first_refresh"]
    /\ UNCHANGED <<data, last_update_success, pc, results, last, scenario, svc, wizarr>>

\* the first refresh is done: the device is registered, coordinator and client are
\* stored in hass.data[DOMAIN][entry_id], and the sensor platform is being set up
SetupStores(entry) ==
    /\ hass.entries[entry] = "first_refresh"
    /\ hass' = [hass EXCEPT !.data = @ \cup {entry}, !.entries[entry] = "forward"]
    /\ UNCHANGED <<data, last_update_success, pc, results, last, scenario, svc, wizarr>>

\* the platform is set up: the two services are registered and the entry is loaded
SetupRegisters(entry) ==
    /\ hass.entries[entry] = "forward"
    /\ hass' = [register_services(hass, entry) EXCEPT !.entries[entry] = "loaded"]
    /\ UNCHANGED <<data, last_update_success, pc, results, last, scenario, svc, wizarr>>

\* async_unload_entry up to its await of async_unload_platforms
UnloadStarts(entry) ==
    /\ hass.entries[entry] = "loaded"
    /\ hass' = [hass EXCEPT !.entries[entry] = "unloading"]
    /\ UNCHANGED <<data, last_update_success, pc, results, last, scenario, svc, wizarr>>

\* async_unload_platforms has answered unload_ok
UnloadCompletes(entry, unload_ok) ==
    /\ hass.entries[entry] = "unloading"
    /\ hass' = IF unload_ok
               THEN remove_services([hass EXCEPT !.data = @ \ {entry},
                                                 !.entries[entry] = "not_loaded"])
               ELSE [hass EXCEPT !.entries[entry] = "failed_unload"]
    /\ UNCHANGED <<data, last_update_success, pc, results, last, scenario, svc, wizarr>>

\* a call of a registered service is handed to its handler, which sends its
\* requests through the client it closes over
CallService(name) ==
    /\ hass[name] # 0
    /\ hass' = [hass EXCEPT !.call = [service |-> name, client |-> hass[name]]]
    /\ UNCHANGED <<data, last_update_success, pc, results, last, scenario, svc, wizarr>>

NextEntries ==
    \/ \E entry \in EntryIds : SetupStarts(entry)
    \/ \E entry \in EntryIds : SetupStores(entry)
    \/ \E entry \in EntryIds : SetupRegisters(entry)
    \/ \E entry \in EntryIds : UnloadStarts(entry)
    \/ \E entry \in EntryIds : \E unload_ok \in BOOLEAN : UnloadCompletes(entry, unload_ok)
    \/ \E name \in ServiceNames : CallService(name)

SpecEntries == Init /\ [][NextEntries]_vars


(***************************************************************************)
(* Properties                                                              *)
(***************************************************************************)
\* F: the tasks of the last cycle whose sub-fetch raised
Failed == {i \in 1..Len(tasks) : isinstance_Exception(results[i])}

\* under Spec: a cycle has ended, and results are still those of that cycle
CyclePublished == pc = "idle" /\ data # PyNone

\* C1: for every set F of failed sub-fetches the cycle ends without raising, an
\* endpoint's key holds the Unavailable marker (None) if and only if the endpoint
\* is in F, and every endpoint outside F holds its decoded payload.
C1_UnavailableIffFailed ==
    CyclePublished =>
        /\ last_update_success
        /\ \A i \in 1..Len(tasks) :
              /\ (DictGet(data, tasks[i], Absent) = PyNone) <=> (i \in Failed)
              /\ i \notin Failed => DictGet(data, tasks[i], Absent) = results[i].val

\* C2: every Snapshot has exactly the six keys status, users, invitations,
\* libraries, servers and api_keys, after any sequence of cycles and outcomes.
C2_ExactlySixKeys ==
    data # PyNone =>
        /\ isinstance_dict(data)
        /\ {data.d[i][1] : i \in 1..Len(data.d)} = {tasks[i] : i \in 1..Len(tasks)}
        /\ Len(data.d) = Len(tasks)

\* a later cycle is in flight over a Snapshot in which some endpoints failed and
\* some did not
C2_Witness ==
    /\ pc = "gather"
    /\ data # PyNone
    /\ \E i \in 1..Len(tasks) : results[i] # Pending
    /\ \E i, j \in 1..Len(tasks) :
          /\ DictGet(data, tasks[i], Absent) = PyNone
          /\ DictGet(data, tasks[j], Absent) \notin {PyNone, Absent}


\* --- the sensor checks
AttributesRead == last.op = "extra_state_attributes"
ResolverEndpoints == {s_users, s_invitations, s_libraries}

\* the sensors whose attributes read the payload of an endpoint: its own sensor,
\* and the invitations sensor for the users and libraries it resolves against
Readers(endpoint) ==
    {endpoint} \cup (IF endpoint \in {s_users, s_libraries} THEN {s_invitations} ELSE {})

TotalKey(endpoint) ==
    CASE endpoint = s_users -> s_total_users
      [] endpoint = s_invitations -> s_total_invitations
      [] endpoint = s_libraries -> s_total_libraries
      [] endpoint = s_servers -> s_total_servers
      [] endpoint = s_api_keys -> s_total_api_keys

\* a mapping holds key k / the value it holds, keys compared as JSON values
KeyOf(m, k) == \E i \in 1..Len(m.d) : m.d[i][1] = k
ValueOf(m, k) == m.d[CHOOSE i \in 1..Len(m.d) : m.d[i][1] = k][2]

\* C3: the four payload shapes of a list L (bare, {"data": L}, {"<entity>": L},
\* scalar fields plus one list field) are all normalized to L, same order and
\* length, in the resolver's extraction and in the derived-view builder's.
C3_AllShapesGiveTheList ==
    (scenario.kind = "shape" /\ AttributesRead) =>
        LET payload == DictGet(scenario.data, scenario.endpoint, Absent)
        IN  /\ scenario.endpoint \in ResolverEndpoints =>
                  extract_list(payload, scenario.endpoint) = PyList(scenario.L)
            /\ view_list(payload) = PyList(scenario.L)

\* the normalisation the specification describes: a list under "data", else under
\* the entity key, else the first list-valued field not named "count", else nothing
RECURSIVE FirstListField(_, _)
FirstListField(m, i) ==
    IF i > Len(m.d) THEN <<>>
    ELSE IF m.d[i][2].t = "list" /\ m.d[i][1] # s_count THEN m.d[i][2].l
    ELSE FirstListField(m, i + 1)
SpecNormalize(payload, entity) ==
    IF payload.t = "list" THEN payload.l
    ELSE IF payload.t # "dict" THEN <<>>
    ELSE IF KeyOf(payload, s_data) /\ ValueOf(payload, s_data).t = "list"
    THEN ValueOf(payload, s_data).l
    ELSE IF KeyOf(payload, entity) /\ ValueOf(payload, entity).t = "list"
    THEN ValueOf(payload, entity).l
    ELSE FirstListField(payload, 1)

\* the lists the fallback allows when no rule finds a list: no record, or the
\* mapping itself as the only record
SpecNormalizations(payload, entity) ==
    {PyList(SpecNormalize(payload, entity))}
    \cup (IF payload.t = "dict" /\ SpecNormalize(payload, entity) = <<>>
          THEN {PyList(<<payload>>)} ELSE {})

\* C4: a mapping whose "data" (or entity) key holds a non-sequence never makes
\* normalization raise: extraction falls through to the next rule (entity key,
\* first list-valued field, fallback) and does not iterate the non-sequence.
C4_MismatchFallsThrough ==
    (scenario.kind = "mismatch" /\ AttributesRead
        /\ last.sensor \in Readers(scenario.endpoint)) =>
        /\ last.exc = "none"
        /\ scenario.endpoint \in ResolverEndpoints =>
              extract_list(scenario.payload, scenario.endpoint)
                  \in SpecNormalizations(scenario.payload, scenario.endpoint)
        /\ view_list(scenario.payload)
              \in SpecNormalizations(scenario.payload, scenario.endpoint)

\* C5: for a payload that is None, {}, [] or a dict of scalar fields only,
\* normalization does not raise and yields no records: the total of the derived
\* view (where it has one) is 0 and nothing is enriched or counted.
C5_EmptyPayloadsGiveNoRecords ==
    (scenario.kind = "empty" /\ AttributesRead
        /\ last.sensor \in Readers(scenario.endpoint)) =>
        /\ last.exc = "none"
        /\ scenario.endpoint \in ResolverEndpoints =>
              extract_list(scenario.payload, scenario.endpoint) = PyList(<<>>)
        /\ view_list(scenario.payload) = PyList(<<>>)
        /\ last.sensor = scenario.endpoint =>
              /\ DictGet(last.val, TotalKey(scenario.endpoint), PyInt(0)) = PyInt(0)
              /\ ~Truthy(DictGet(last.val, s_invitations, PyNone))

\* C6: enrichment leaves the Snapshot unchanged: after the call the stored
\* invitations, users and libraries payloads, and the lookup tables built from
\* them, are what they were; only the returned records carry the replacements.
C6_SnapshotUnchanged ==
    (scenario.kind # "none" /\ AttributesRead) =>
        /\ data = scenario.data
        /\ \A e \in ResolverEndpoints :
              DictGet(data, e, Absent) = DictGet(scenario.data, e, Absent)
        /\ build_user_lookup(DictGet(data, s_users, PyNone))
              = build_user_lookup(DictGet(scenario.data, s_users, PyNone))
        /\ build_library_lookup(DictGet(data, s_libraries, PyNone))
              = build_library_lookup(DictGet(scenario.data, s_libraries, PyNone))

\* enrichment has run and replaced a field in the records it returned, and the
\* stored invitations still hold the field as the server sent it
C6_Witness ==
    /\ AttributesRead /\ last.sensor = s_invitations /\ last.exc = "none"
    /\ isinstance_list(DictGet(data, s_invitations, PyNone))
    /\ DictGet(last.val, s_invitations, PyNone) # DictGet(data, s_invitations, PyNone)
    /\ DictGet(data, s_invitations, PyNone) = DictGet(scenario.data, s_invitations, PyNone)

\* what the specification says of one user record
UsableId(rec) == isinstance_dict(rec) /\ Truthy(DictGet(rec, s_id, PyNone))
ClaimUserLabel(rec) ==
    LET u == DictGet(rec, s_username, PyNone)
        m == DictGet(rec, s_email, PyNone)
    IN  IF Truthy(u) /\ Truthy(m) THEN PyStr(u.s \o <<" ", "(">> \o m.s \o <<")">>)
        ELSE IF Truthy(m) THEN m
        ELSE IF Truthy(u) THEN u
        ELSE PyStr(<<"U", "s", "e", "r", " ">> \o str_of(DictGet(rec, s_id, PyNone)))

IsUserN(u) ==
    /\ u.t = "str" /\ Len(u.s) > 7
    /\ SubSeq(u.s, 1, 6) = <<"<", "U", "s", "e", "r", " ">>
    /\ u.s[Len(u.s)] = ">"
    /\ LET body == SubSeq(u.s, 7, Len(u.s) - 1)
           digits == IF body[1] = "-" THEN Tail(body) ELSE body
       IN  digits # <<>> /\ \A i \in 1..Len(digits) : IsDigit(digits[i])
UserN(u) == int_of(SubSeq(u.s, 7, Len(u.s) - 1)).n

\* the used_by value the specification gives, userLabels being table
ClaimUsedBy(u, table) ==
    IF IsUserN(u)
    THEN IF KeyOf(table, PyInt(UserN(u))) THEN ValueOf(table, PyInt(UserN(u))) ELSE u
    ELSE IF u.t = "dict" /\ KeyOf(u, s_id) /\ KeyOf(table, ValueOf(u, s_id))
    THEN ValueOf(table, ValueOf(u, s_id))
    ELSE IF u.t = "int" /\ KeyOf(table, u) THEN ValueOf(table, u)
    ELSE u

\* C8: used_by is replaced by the user label exactly when it is "<User N>" with N
\* an integer key of userLabels, a mapping whose id is a key, or a bare integer
\* key; in every other case the field keeps its value and no error is raised.
C8_UsedByResolution ==
    (scenario.kind = "used_by" /\ AttributesRead /\ last.sensor = s_invitations) =>
        LET L == scenario.invitations
            table == build_user_lookup(UsedByUsers).val
            out == DictGet(last.val, s_invitations, PyNone)
        IN  /\ last.exc = "none"
            /\ isinstance_list(out) /\ Len(out.l) = Len(L)
            /\ \A i \in 1..Len(L) :
                  IF KeyOf(L[i], s_used_by)
                  THEN out.l[i] = DictSet(L[i], s_used_by,
                                          ClaimUsedBy(ValueOf(L[i], s_used_by), table))
                  ELSE out.l[i] = L[i]

\* the name the specification gives one element of specific_libraries
ClaimLibraryName(x, table) ==
    IF x.t = "int" /\ KeyOf(table, x) THEN ValueOf(table, x)
    ELSE IF x.t = "dict" /\ KeyOf(x, s_id)
    THEN IF KeyOf(table, ValueOf(x, s_id)) THEN ValueOf(table, ValueOf(x, s_id))
         ELSE IF KeyOf(x, s_name) THEN ValueOf(x, s_name)
         ELSE PyStr(<<"L", "i", "b", "r", "a", "r", "y", " ">> \o str_of(ValueOf(x, s_id)))
    ELSE PyStr(str_of(x))

\* C9: a non-empty specific_libraries is replaced by a sequence of strings of the
\* same length and order: an integer key of libraryLabels becomes its label, a
\* mapping with an id that id's label, else its own name or "Library {id}", any
\* other element its string representation; [5, 99] gives ["Movies (ServerA)", "99"].
C9_SpecificLibraries ==
    (scenario.kind = "libraries" /\ AttributesRead /\ last.sensor = s_invitations
        /\ isinstance_list(scenario.specific_libraries)
        /\ scenario.specific_libraries.l # <<>>) =>
        LET sl == scenario.specific_libraries.l
            table == build_library_lookup(RefLibraries).val
        IN  /\ last.exc = "none"
            /\ LET out == DictGet(DictGet(last.val, s_invitations, PyNone).l[1],
                                  s_specific_libraries, PyNone)
               IN  /\ isinstance_list(out) /\ Len(out.l) = Len(sl)
                   /\ \A i \in 1..Len(sl) :
                         /\ isinstance_str(out.l[i])
                         /\ out.l[i] = ClaimLibraryName(sl[i], table)
                   /\ sl = <<PyInt(5), PyInt(99)>> =>
                         out = PyList(<<v_Movies_label, v_99>>)

\* C10: for users, invitations, libraries, servers and api_keys and every
\* supported payload shape, total_<entity> of the derived view is the number of
\* records of the list.
C10_TotalIsListLength ==
    (scenario.kind = "shape" /\ AttributesRead /\ last.sensor = scenario.endpoint) =>
        /\ last.exc = "none"
        /\ DictGet(last.val, TotalKey(scenario.endpoint), Absent)
              = PyInt(Len(scenario.L))


\* the bucket the specification gives a record: the value of its grouping field,
\* "unknown" when the record has no such field
ClaimBucket(rec, field) == IF KeyOf(rec, field) THEN ValueOf(rec, field) ELSE s_unknown

RECURSIVE SumCounts(_, _)
SumCounts(h, i) == IF i > Len(h.d) THEN 0 ELSE h.d[i][2].n + SumCounts(h, i + 1)

\* C11: for users, invitations, libraries and servers with a non-empty list (in
\* any supported payload shape) every record is counted in exactly one bucket of
\* the histogram, the value of its grouping field or "unknown" when the field is
\* missing, and the bucket counts sum to total_<entity>.
C11_HistogramCountsEveryRecord ==
    (scenario.kind = "histogram" /\ AttributesRead /\ last.sensor = scenario.endpoint) =>
        LET L == scenario.L
            field == group_field(scenario.endpoint)
            h == DictGet(last.val, histogram_key(scenario.endpoint), Absent)
        IN  /\ last.exc = "none"
            /\ isinstance_dict(h)
            /\ \A i \in 1..Len(L) :
                  /\ KeyOf(h, ClaimBucket(L[i], field))
                  /\ ValueOf(h, ClaimBucket(L[i], field))
                        = PyInt(Cardinality({j \in 1..Len(L) :
                              ClaimBucket(L[j], field) = ClaimBucket(L[i], field)}))
            /\ \A k \in 1..Len(h.d) :
                  /\ \E i \in 1..Len(L) : ClaimBucket(L[i], field) = h.d[k][1]
                  /\ \A k2 \in 1..Len(h.d) : h.d[k2][1] = h.d[k][1] => k2 = k
            /\ SumCounts(h, 1) = Len(L)
            /\ DictGet(last.val, TotalKey(scenario.endpoint), Absent) = PyInt(Len(L))


\* a step in which Home Assistant reads a sensor
SensorRead ==
    \E sensor_type \in SENSOR_TYPES :
        ExtraStateAttributes(sensor_type) \/ NativeValue(sensor_type)

\* the invitations view of the healthy server's one invitation, whose used_by and
\* specific_libraries are resolved against the users and libraries entries that
\* the Snapshot holds
InvitationsViewOf(snapshot) ==
    PyDict(<<
      <<s_invitations,
        PyList(<<PyDict(<<
          <<s_id, PyInt(10)>>,
          <<s_used_by, IF DictGet(snapshot, s_users, PyNone) = PyNone
                       THEN v_User2 ELSE v_al>>,
          <<s_specific_libraries,
            IF DictGet(snapshot, s_libraries, PyNone) = PyNone
            THEN PyList(<<v_five, v_99>>) ELSE PyList(<<v_Movies_label, v_99>>)>> >>)>>)>>,
      <<s_total_invitations, PyInt(1)>>,
      <<s_invitations_by_status, PyDict(<<<<s_unknown, PyInt(1)>>>>)>> >>)

\* what the last read shows of the Snapshot it read
C12_ReadShows ==
    (last.op # "none" /\ data # PyNone) =>
        /\ last.exc = "none"
        /\ IF DictGet(data, last.sensor, Absent) = PyNone
           THEN IF last.op = "native_value" THEN last.val = s_unavailable
                ELSE last.val = PyDict(<<<<s_status, s_unavailable>>>>)
           ELSE IF last.op = "native_value"
           THEN last.val = native_value(last.sensor, HealthySnapshot)
           ELSE IF last.sensor = s_invitations THEN last.val = InvitationsViewOf(data)
           ELSE last.val = extra_state_attributes(last.sensor, HealthySnapshot).val

\* C12: when an endpoint's Snapshot entry is the Unavailable marker (None), its
\* sensor shows state "unavailable" and attributes {status: unavailable}, without
\* raising and whatever earlier cycles published; the sensors of the other
\* endpoints show what they show of their own entries.
C12_UnavailableView == [][SensorRead => C12_ReadShows']_vars

\* the users endpoint failed in the last cycle while invitations answered, and
\* the users sensor was read
C12_Witness ==
    /\ pc = "idle" /\ last.op = "extra_state_attributes" /\ last.sensor = s_users
    /\ last.val = PyDict(<<<<s_status, s_unavailable>>>>)
    /\ DictGet(data, s_users, Absent) = PyNone
    /\ DictGet(data, s_invitations, Absent) = DefaultInvitations


\* C13: the transport request returns the decoded JSON body if and only if the
\* status is 200 or 201; 401 fails with the auth error, every other status with a
\* request error, a network failure with a connectivity error; it never returns
\* normally for a status other than 200/201.
C13_ReturnsIffOk ==
    last.op = "request" =>
        IF scenario.resp.net = "error" THEN last.exc = "ClientError"
        ELSE /\ (last.exc = "none") <=> (scenario.resp.status \in {200, 201})
             /\ last.exc = "none" => last.val = scenario.resp.body
             /\ scenario.resp.status = 401 => last.exc = "Exception"
             /\ scenario.resp.status \notin {200, 201, 401} =>
                   last.exc = "ClientResponseError"


\* --- the service checks
\* the effects of a kind in the trace of the call in flight
EffectsOf(kinds) == {i \in 1..Len(svc.trace) : svc.trace[i].kind \in kinds}
CreateRequests ==
    {i \in EffectsOf({"request"}) : svc.trace[i].name = "POST /invitations"}

\* an email address: one "@" after a non-empty local part, then a domain that
\* ends in a dot and at least two letters, and no white space anywhere
IsEmailAddress(s) ==
    /\ \A k \in 1..Len(s) : s[k] \notin Whitespace
    /\ \E i \in 2..Len(s) :
          /\ s[i] = "@"
          /\ \A k \in 1..Len(s) : s[k] = "@" => k = i
          /\ \E j \in (i + 2)..(Len(s) - 2) :
                s[j] = "." /\ \A k \in (j + 1)..Len(s) : s[k] \in Letters

\* C14: send_invitation_email called with a recipient_email that is not a valid
\* email address (e.g. "not-an-email") issues no create request, no servers
\* fetch, no SMTP send and fires no event; it logs the failure and returns
\* without raising to the caller.
C14_InvalidEmailNoNetwork ==
    (svc.name = "send_invitation_email"
        /\ ~IsEmailAddress(DictGet(svc.call, s_recipient_email, PyNone).s)) =>
        /\ EffectsOf({"request", "smtp", "event"}) = {}
        /\ svc.pc = "done" /\ svc.raised = "none"
        /\ \E i \in EffectsOf({"log"}) : svc.trace[i] = LogError

\* the server ids the specification reads from a server_ids string: the pieces
\* between commas that are decimal digits (white space around them aside) and
\* denote a positive integer
ClaimServerIds(s) ==
    LET pieces == split_comma(s, <<>>)
        IsId(p) == /\ strip(p) # <<>>
                   /\ \A k \in 1..Len(strip(p)) : IsDigit(strip(p)[k])
                   /\ int_of(strip(p)).n > 0
    IN  {i \in 1..Len(pieces) : IsId(pieces[i])}

\* C15: send_invitation_email fails the whole operation without raising to the
\* caller (a) before any create request when no element of server_ids parses to
\* a positive integer and (b) before any SMTP send and email-sent event when the
\* create response gives no invitation URL; a create request carries a non-empty
\* list of positive integer server ids.
C15_FailsBeforeCreateOrSend ==
    svc.name = "send_invitation_email" =>
        /\ svc.raised = "none"
        /\ ClaimServerIds(DictGet(svc.call, s_server_ids, PyNone).s) = {} =>
              EffectsOf({"request", "smtp", "event"}) = {}
        /\ \A i \in CreateRequests :
              LET ids == DictGet(svc.trace[i].data, s_server_ids, PyNone)
              IN  /\ isinstance_list(ids) /\ ids.l # <<>>
                  /\ \A k \in 1..Len(ids.l) : ids.l[k].t = "int" /\ ids.l[k].n > 0
        /\ \A i \in EffectsOf({"smtp", "event"}) :
              /\ Truthy(DictGet(svc.trace[i].data, s_invitation_url, PyNone))
              /\ CreateRequests # {}
        /\ ~Truthy(svc.invitation_url) => EffectsOf({"smtp", "event"}) = {}

\* C16: the payload of every create request, of both services, carries
\* unlimited: true exactly when the call's duration is absent or empty and
\* duration exactly when it is non-empty: one of the two, never both or neither.
C16_UnlimitedXorDuration ==
    \A i \in CreateRequests :
        LET payload == svc.trace[i].data
            duration == DictGet(svc.call, s_duration, Absent)
            given == duration \notin {Absent, PyStr(<<>>)}
        IN  /\ KeyOf(payload, s_unlimited) <=> ~given
            /\ KeyOf(payload, s_duration) <=> given
            /\ KeyOf(payload, s_unlimited) => ValueOf(payload, s_unlimited) = PyBool(TRUE)
            /\ KeyOf(payload, s_duration) => ValueOf(payload, s_duration) = duration
            /\ KeyOf(payload, s_unlimited) # KeyOf(payload, s_duration)

\* a create request went out for a call with an empty duration, marked unlimited
\* and without a duration
C16_Witness ==
    /\ svc.name = "send_invitation_email" /\ svc.pc = "servers"
    /\ DictGet(svc.call, s_duration, Absent) = PyStr(<<>>)
    /\ \E i \in CreateRequests :
          /\ DictGet(svc.trace[i].data, s_unlimited, Absent) = PyBool(TRUE)
          /\ ~KeyOf(svc.trace[i].data, s_duration)


\* where the specification finds the created invitation's id, url and code in a
\* response body: in its "invitation" object when it has one, else at the root
\* of a mapping, and nowhere in any other body
ClaimInvitationObject(body) ==
    IF body.t # "dict" THEN PyDict(<<>>)
    ELSE IF KeyOf(body, s_invitation) /\ ValueOf(body, s_invitation).t = "dict"
            /\ ValueOf(body, s_invitation).d # <<>>
    THEN ValueOf(body, s_invitation)
    ELSE body

\* what create_invitation has reported once the server's answer resp is handled
C20_Reported(resp) ==
    IF resp.net = "ok" /\ resp.status \in {200, 201}
    THEN /\ Cardinality(EffectsOf({"event"})) = 1
         /\ \A i \in EffectsOf({"event"}) :
               /\ svc.trace[i].name = "wizarr_invitation_created"
               /\ \A f \in {<<s_invitation_id, s_id>>, <<s_invitation_url, s_url>>,
                            <<s_invitation_code, s_code>>} :
                     DictGet(svc.trace[i].data, f[1], Absent)
                         = DictGet(ClaimInvitationObject(resp.body), f[2], PyNone)
    ELSE /\ EffectsOf({"event"}) = {}
         /\ \E i \in EffectsOf({"log"}) : svc.trace[i] = LogError
         /\ svc.raised = "none"

\* C20: whenever the create request of create_invitation succeeds, the service
\* fires exactly one wizarr_invitation_created event whose id, url and code are
\* the invitation's values when the response holds them (under an invitation
\* object or at its root) and null otherwise, for every response shape; when the
\* request fails it fires no event and logs the error without raising.
C20_OneResultPerCreate ==
    [][\A resp \in CreateResponses :
          CreateInvitationResponds(resp) => C20_Reported(resp)']_vars


\* C17: enrichment, lookup-table construction and the derived views never raise,
\* whatever JSON the Snapshot holds: with a record list that has an element that
\* is no mapping, or a record with a mistyped field, the malformed record is
\* skipped and the well-formed record next to it is still labelled and counted.
C17_TotalOnMalformedRecords ==
    (scenario.kind = "malformed" /\ last.op # "none"
        /\ last.sensor \in Readers(scenario.endpoint)) =>
        LET good == GoodRecord(scenario.endpoint)
            hasGood == \E i \in 1..Len(scenario.L) : scenario.L[i] = good
        IN  /\ last.exc = "none"
            /\ build_user_lookup(DictGet(scenario.data, s_users, PyNone)).exc = "none"
            /\ build_library_lookup(DictGet(scenario.data, s_libraries, PyNone)).exc = "none"
            /\ (hasGood /\ scenario.endpoint = s_users) =>
                  DictGet(build_user_lookup(PyList(scenario.L)).val, PyInt(3), Absent) = v_zed
            /\ (hasGood /\ scenario.endpoint = s_libraries) =>
                  DictGet(build_library_lookup(PyList(scenario.L)).val, PyInt(3), Absent)
                      = v_Shows
            /\ (hasGood /\ last.op = "extra_state_attributes"
                    /\ last.sensor = scenario.endpoint
                    /\ scenario.endpoint \in HistogramEndpoints) =>
                  KeyOf(DictGet(last.val, histogram_key(scenario.endpoint), PyDict(<<>>)),
                        v_plex)


\* C18: a refresh cycle starts all six requests at once, none waiting for
\* another, and they end in any order; the Snapshot is published only when all
\* six have returned or raised, and it is built from those six outcomes: no
\* Snapshot built from fewer is ever visible.
C18_PublishAfterJoin ==
    [][/\ (pc = "idle" /\ pc' = "gather") =>
              \A i \in 1..Len(tasks) : results'[i] = Pending
       /\ \A i \in 1..Len(tasks) :
              (pc = "gather" /\ results[i] = Pending) =>
                  ENABLED CompleteFetch(i, NetworkFailure)
       /\ pc' = "gather" => data' = data
       /\ (pc = "gather" /\ pc' = "idle") =>
              /\ \A i \in 1..Len(tasks) : results[i] # Pending
              /\ data' = collect_results(PyDict(<<>>), results, 1)
       /\ data' # data => (pc = "gather" /\ pc' = "idle")]_vars

\* the last request of the task list has ended while the first is still in
\* flight, over the Snapshot of an earlier cycle
C18_Witness ==
    /\ pc = "gather" /\ data # PyNone
    /\ results[1] = Pending /\ results[Len(tasks)] # Pending


\* a step of a service call: its start, the arrival of an answer, its end
ServiceStep == svc' # svc

\* the state and the attributes the invitations sensor shows of a Snapshot
InvitationsView(cdata) ==
    <<native_value(s_invitations, cdata), extra_state_attributes(s_invitations, cdata).val>>

\* C19: in every interleaving of the two services with refresh cycles, a service
\* step leaves coordinator.data as it is, whether the call succeeds or fails;
\* the Snapshot changes only when a cycle ends and replaces it wholesale, so an
\* invitation the server has created shows in the sensors only after a later
\* refresh.
C19_ActionsLeaveSnapshot ==
    [][/\ ServiceStep => data' = data
       /\ data' # data =>
              /\ pc = "gather" /\ pc' = "idle" /\ svc' = svc
              /\ data' = collect_results(PyDict(<<>>), results, 1)
       /\ wizarr' # wizarr => InvitationsView(data') = InvitationsView(data)
       /\ InvitationsView(data') # InvitationsView(data) => (pc = "gather" /\ pc' = "idle")]_vars

\* a create_invitation call has ended with its event while a refresh cycle is in
\* flight, and the published Snapshot still holds the invitations of the cycle
\* before: the server has one invitation more than the sensors show
C19_Witness ==
    /\ pc = "gather" /\ data # PyNone
    /\ svc.name = "create_invitation" /\ svc.pc = "done"
    /\ EffectsOf({"event"}) # {}
    /\ wizarr = 1
    /\ DictGet(data, s_invitations, Absent) = CreatedInvitations(0)
    /\ native_value(s_invitations, data) = PyInt(0)


\* the positions of the fields of mapping m that hold a list under a name other
\* than "count"
ListFields(m) == {i \in 1..Len(m.d) : m.d[i][2].t = "list" /\ m.d[i][1] # s_count}

\* the list the stated order of preference picks from a mapping whose "data" and
\* entity fields, where present, hold lists
ClaimPreferred(m, entity) ==
    IF KeyOf(m, s_data) THEN ValueOf(m, s_data)
    ELSE IF KeyOf(m, entity) THEN ValueOf(m, entity)
    ELSE IF ListFields(m) = {} THEN PyList(<<>>)
    ELSE m.d[CHOOSE i \in ListFields(m) : \A j \in ListFields(m) : i <= j][2]

\* C21: from a mapping with several list-valued fields the resolver's extraction
\* takes the list under "data" before the one under the plural entity key, and
\* that one before any other; with neither it takes the first list-valued field
\* in the mapping's field order, and never the field "count", even when it holds
\* a list and comes first. The invitations sensor shows what enrichment gives
\* for the bare list so chosen.
C21_ExtractionPreference ==
    (scenario.kind = "prefer" /\ AttributesRead /\ last.sensor = s_invitations) =>
        /\ extract_list(scenario.payload, scenario.endpoint)
              = ClaimPreferred(scenario.payload, scenario.endpoint)
        /\ last.exc = "none"
        /\ DictGet(last.val, s_invitations, Absent)
              = DictGet(extra_state_attributes(s_invitations,
                            SnapshotWith(scenario.endpoint,
                                ClaimPreferred(scenario.payload, scenario.endpoint))).val,
                        s_invitations, Absent)

\* the users payload is {"count": [..], "items": [..], "results": [..]}: the
\* invitations sensor was read and shows the user named in the list of "items"
C21_Witness ==
    /\ scenario.kind = "prefer" /\ scenario.endpoint = s_users
    /\ AttributesRead /\ last.sensor = s_invitations /\ last.exc = "none"
    /\ Len(scenario.payload.d) = 3
    /\ scenario.payload.d[1][1] = s_count
    /\ scenario.payload.d[2][1] = v_items
    /\ scenario.payload.d[3][1] = v_results
    /\ DictGet(DictGet(last.val, s_invitations, Absent).l[1], s_used_by, Absent) = v_items


\* a field of a record is available: it is there and holds a non-empty string
Available(record, k) ==
    KeyOf(record, k) /\ ValueOf(record, k).t = "str" /\ ValueOf(record, k).s # <<>>

\* the label the claim gives a library record
ClaimLibraryLabel(library) ==
    LET label == IF Available(library, s_name) THEN ValueOf(library, s_name).s
                 ELSE IF Available(library, s_title) THEN ValueOf(library, s_title).s
                 ELSE c_Library_sp \o str_of(ValueOf(library, s_id))
    IN  IF Available(library, s_server_name) /\ ValueOf(library, s_server_name) # s_Unknown
        THEN PyStr(label \o <<" ", "(">> \o ValueOf(library, s_server_name).s \o <<")">>)
        ELSE PyStr(label)

\* C22: the label of a library record with a usable id is its name, else its
\* title when the name is not available, else "Library {id}", followed by
\* " ({server_name})" when server_name is non-empty and not "Unknown"; it is
\* always a string. The invitations sensor shows that label for the library id.
C22_LibraryLabel ==
    (scenario.kind = "label" /\ AttributesRead /\ last.sensor = s_invitations) =>
        /\ last.exc = "none"
        /\ LET library_lookup == build_library_lookup(DictGet(data, s_libraries, PyNone)).val
               shown == DictGet(DictGet(last.val, s_invitations, Absent).l[1],
                                s_specific_libraries, Absent).l[1]
           IN  /\ DictGet(library_lookup, PyInt(5), Absent) = ClaimLibraryLabel(scenario.library)
               /\ shown.t = "str"
               /\ shown = ClaimLibraryLabel(scenario.library)


\* --- the checks of the config entries
\* the entry is set up and has not been unloaded: a failed unload leaves it so
Loaded(h, entry) == h.entries[entry] \in {"loaded", "failed_unload"}
\* no setup and no unload is under way
Quiescent(h) == \A entry \in EntryIds : h.entries[entry] \in {"not_loaded", "loaded", "failed_unload"}
Registered(h) == h.create_invitation # 0 /\ h.send_invitation_email # 0
Unregistered(h) == h.create_invitation = 0 /\ h.send_invitation_email = 0

\* C23: once every setup and unload has completed, the two services are
\* registered if and only if at least one config entry is loaded; they are
\* removed only by a successful unload that leaves no entry loaded, such an
\* unload always removes them, and a failed unload leaves hass.data and the
\* services as they were.
C23_ServicesIffEntryLoaded ==
    [][/\ Quiescent(hass') =>
              IF \E entry \in EntryIds : Loaded(hass', entry)
              THEN Registered(hass') ELSE Unregistered(hass')
       /\ (~Unregistered(hass) /\ ~Registered(hass')) =>
              /\ \E entry \in EntryIds : UnloadCompletes(entry, TRUE)
              /\ Unregistered(hass')
              /\ \A entry \in EntryIds : ~Loaded(hass', entry)
       /\ \A entry \in EntryIds :
              /\ (UnloadCompletes(entry, TRUE)
                    /\ \A other \in EntryIds :
                          hass'.entries[other] \in {"not_loaded", "first_refresh"})
                 => Unregistered(hass')
              /\ (UnloadCompletes(entry, FALSE) /\ hass'.entries[entry] = "failed_unload")
                 => /\ hass'.data = hass.data /\ entry \in hass'.data
                    /\ hass'.create_invitation = hass.create_invitation
                    /\ hass'.send_invitation_email = hass.send_invitation_email]_vars

\* both entries were loaded, a service ran on the client of entry 2, and now
\* every entry is unloaded again and the services are gone
C23_Witness ==
    /\ \A entry \in EntryIds : hass.entries[entry] = "not_loaded"
    /\ hass.data = {} /\ Unregistered(hass)
    /\ hass.call.service = "send_invitation_email" /\ hass.call.client = 2

\* C24: while at least one config entry is loaded and no setup or unload is
\* under way, a call of either service runs on the client of an entry that is
\* still loaded, never on the client of an entry that has been unloaded.
C24_CallUsesLoadedClient ==
    [][\A name \in ServiceNames :
          (CallService(name) /\ Quiescent(hass) /\ \E entry \in EntryIds : Loaded(hass, entry))
             => Loaded(hass', hass'.call.client)]_vars


\* the positions in the trace of call c of the effects of one kind and name
EffectsNamed(c, kind, name) ==
    {i \in 1..Len(c.trace) : c.trace[i].kind = kind /\ c.trace[i].name = name}
Creations(c) == EffectsNamed(c, "request", "POST /invitations")
ServerFetches(c) == EffectsNamed(c, "request", "GET /servers")
Sends(c) == EffectsNamed(c, "smtp", "send_message")
SentEvents(c) == EffectsNamed(c, "event", "wizarr_invitation_email_sent")
\* every position of I comes before every position of J
Before(I, J) == \A i \in I : \A j \in J : i < j

\* C25: in one send_invitation_email call the create request comes before the
\* servers fetch and that before the SMTP send, each at most once; the event
\* wizarr_invitation_email_sent is fired at most once, after them, and only when
\* the create request gave a URL and the send ended without error. A servers
\* fetch that fails does not stop the send, which then names "our media" and
\* "server"; a send that fails fires no event, and the invitation stays created
\* and is not requested again.
C25_EmailStepsInOrder ==
    [][svc'.name = "send_invitation_email" =>
        /\ Cardinality(Creations(svc')) <= 1 /\ Cardinality(ServerFetches(svc')) <= 1
        /\ Cardinality(Sends(svc')) <= 1 /\ Cardinality(SentEvents(svc')) <= 1
        /\ Before(Creations(svc'), ServerFetches(svc'))
        /\ Before(ServerFetches(svc'), Sends(svc'))
        /\ Before(Sends(svc'), SentEvents(svc'))
        /\ ServerFetches(svc') # {} => Creations(svc') # {}
        /\ Sends(svc') # {} => ServerFetches(svc') # {}
        /\ (SentEvents(svc') # {} /\ SentEvents(svc) = {}) =>
              /\ SmtpCompletes(TRUE)
              /\ Sends(svc) # {} /\ Creations(svc) # {}
              /\ Truthy(svc.invitation_url) /\ wizarr >= 1
        /\ \A resp \in ServersResponses :
              ServersResponds(resp) =>
                 /\ svc'.pc = "smtp" /\ Sends(svc') # {}
                 /\ request(resp).exc # "none" =>
                       \A i \in Sends(svc') :
                          /\ DictGet(svc'.trace[i].data, s_server_name, Absent) = s_our_media
                          /\ DictGet(svc'.trace[i].data, s_server_type, Absent) = s_server
        /\ SmtpCompletes(FALSE) =>
              /\ svc'.pc = "done" /\ SentEvents(svc') = {}
              /\ Creations(svc') = Creations(svc) /\ wizarr' = wizarr]_vars

\* a send_invitation_email call has ended with its event although the servers
\* fetch had failed: the message went out with the fallback names
C25_Witness ==
    /\ svc.name = "send_invitation_email" /\ svc.pc = "done"
    /\ SentEvents(svc) # {} /\ wizarr >= 1
    /\ \E i \in Sends(svc) :
          /\ DictGet(svc.trace[i].data, s_server_name, Absent) = s_our_media
          /\ \E j \in ServerFetches(svc) : j < i /\ svc.trace[j + 1] = LogWarning

=============================================================================
